---- MODULE Spec2Model ----
(***************************************************************************)
(* Model of the arbitrage bot: the Opportunity Detector                    *)
(* (strategy/mod.rs), the Readiness Gate (execution/clob_client.rs) and    *)
(* the two Execution Coordinators (execution/mod.rs, which main.rs uses,   *)
(* and execution/trader.rs).                                               *)
(*                                                                         *)
(* Numbers.  Prices are rust_decimal values and money is f64 / 6-decimal   *)
(* U256 in the source.  The model keeps every amount as an integer number  *)
(* of hundredths (Scale ticks per unit): a price of 0.45 is 45, one USDC   *)
(* is 100.  Additions, subtractions and comparisons are then exact, as     *)
(* they are for Decimal; products are divided by Scale and floored, as     *)
(* the source does with its 1_000_000 fixed point.                         *)
(*                                                                         *)
(* Option<T> is a sequence of length 0 (None) or 1 (Some).                 *)
(***************************************************************************)
EXTENDS Integers, Sequences, FiniteSets, TLC

VARIABLES
    \* ---- Opportunity Detector (strategy/mod.rs)
    detector,            \* ArbitrageDetector: the five thresholds
    snapshot,            \* MarketSnapshot handed to detect_opportunities
    opportunities,       \* Vec returned by the last detect_opportunities call
    prev_opportunities,  \* Vec returned by the call before it
    runs,                \* number of detect_opportunities calls so far
    \* ---- Execution Coordinator and Readiness Gate
    coordinator,         \* "mod" (execution::Trader) or "trader" (execution::trader::Trader)
    sizing,              \* PositionSizing: mode and its parameter
    read_only,           \* ClobClient.read_only
    hex_token_ids,       \* token ids that are 32-byte hex strings (trader.rs parse_token_id)
    chain,               \* on-chain state: balance, allowance, approved, is_contract
    opp_index,           \* opportunities of the snapshot handed to the coordinator so far
    pc,                  \* position of execute_arbitrage
    opp,                 \* the opportunity being executed
    live_usdc_balance,   \* Trader.live_usdc_balance / local `balance`
    units,               \* mod.rs: floor(spend / cost); trader.rs: unused (0)
    spend,               \* mod.rs: units * cost; trader.rs: `size`
    required,            \* amount handed to ensure_trading_ready
    leg,                 \* leg being placed (1 = ETH side, 2 = BTC side)
    order,               \* the order built for the current leg (Option)
    sized,               \* whether this execution has computed its position size
    calls,               \* chain calls made by this execution, in order
    balance_seen,        \* the balance ensure_balance read in this execution (Option)
    gate,                \* "none", "passed" or the gate's error
    attempted,           \* legs whose placement was started
    signed,              \* legs whose order was signed
    posts,               \* orders POSTed to the order endpoint, in order
    leg_result,          \* per leg: "none" or the outcome of its placement
    result,              \* value returned by execute_arbitrage: "none", "Ok", "Err"
    env_changes,         \* external changes to the chain state so far
    \* ---- Order construction and submission (place_leg, execute_order, submit_order)
    env_READ_ONLY,       \* the READ_ONLY environment variable: "unset" or its text
    api_read_only,       \* read_only computed by main and given to PolymarketClient
    clock,               \* SystemTime::now(), in ticks
    made,                \* every ClobOrder built so far, in order
    cur,                 \* the order and signature handed to submit_order (Option)
    sent,                \* JSON payloads POSTed to /order, in order
    response,            \* the response to the last POST (Option; None: no response)
    ret,                 \* value returned by the last submit_order: "none", "Ok", "Err"
    \* ---- Main loop and Market Monitor (main.rs, monitor/mod.rs)
    wall_period,         \* the 15-minute period of the wall clock
    current_period,      \* main's current_period
    main_pc,             \* position of main: "discover", "watch" or "exited"
    tasks,               \* the monitor tasks spawned so far, in order
    \* ---- Price feed (ws/mod.rs, cache.rs)
    ws_pc,               \* position of start_ws: "connect", "stream" or "sleep"
    ws_wait,             \* the delay of the last wait before a reconnect, in seconds
    ws_connects,         \* connection attempts so far
    ws_cache             \* PriceCache: per token its CachedOrderbook (Option)

detVars == <<detector, snapshot, opportunities, prev_opportunities, runs>>

exeVars == <<coordinator, sizing, read_only, hex_token_ids, chain, opp_index, pc, opp,
             live_usdc_balance,
             units, spend, required, leg, order, sized, calls, balance_seen, gate,
             attempted, signed, posts, leg_result, result, env_changes>>

subVars == <<env_READ_ONLY, api_read_only, clock, made, cur, sent, response, ret>>

\* State of the components that the detector and the coordinator leave alone.
monVars == <<wall_period, current_period, main_pc, tasks>>

feedVars == <<ws_pc, ws_wait, ws_connects, ws_cache>>

otherVars == <<subVars, monVars, feedVars>>

vars == <<detVars, exeVars, otherVars>>

\* Hundredths per unit (the source's U256 amounts use 1_000_000, to_u256_scaled).
Scale == 100

\* dec!(1.0): the payout of a complementary pair.
One == 1 * Scale

(***************************************************************************)
(* Opportunity Detector                                                    *)
(***************************************************************************)

\* Defaults of ArbitrageDetector::new, in hundredths.
DefaultMaxSum == 99
DefaultMinReasonable == 15
DefaultMaxReasonable == 95
DefaultMinTotal == 50

\* Number of detect_opportunities calls made on one snapshot.
MaxRuns == 2

\* Ask prices a quote may carry, in hundredths.
AskGrid == {0, 10, 15, 45, 49, 50, 96}

\* Option<Decimal> asks.
Asks == {<<>>} \cup {<<p>> : p \in AskGrid}

\* TokenPrice (bid is never read by the detector and is left out).
TokenPrice(id) == [token_id : {id}, ask : Asks]

\* Option<TokenPrice>.
OptToken(id) == {<<>>} \cup {<<t>> : t \in TokenPrice(id)}

\* MarketData of one market.
MarketData(cid, up_id, down_id) ==
    [condition_id : {cid}, up_token : OptToken(up_id), down_token : OptToken(down_id)]

\* MarketSnapshot (timestamp is never read and is left out).
MarketSnapshot ==
    [eth_market : MarketData("eth_cond", "ETH_UP", "ETH_DOWN"),
     btc_market : MarketData("btc_cond", "BTC_UP", "BTC_DOWN")]

\* Threshold configurations: min_profit_threshold comes from config.json, the
\* other four from the environment (ARBITRAGE_MAX_SUM, MIN_REASONABLE_PRICE, ...).
Detectors ==
    [min_profit_threshold : {0, 2, 5},
     max_sum_threshold    : {95, DefaultMaxSum},
     min_reasonable_price : {11, DefaultMinReasonable},
     max_reasonable_price : {DefaultMaxReasonable},
     min_total_cost       : {DefaultMinTotal}]

\* A filter-4 mutant: '>' where the source has '>='.
SumAtOrAboveMax_Strict(d, total_cost) == total_cost > d.max_sum_threshold

\* strategy/mod.rs:184  total_cost >= self.max_sum_threshold
SumAtOrAboveMax(d, total_cost) == total_cost >= d.max_sum_threshold

\* A filter-1 mutant: '||' where the source has '&&'.
BothTooLow_Either(d, price_a, price_b) ==
    price_a < d.min_reasonable_price \/ price_b < d.min_reasonable_price

\* strategy/mod.rs:148  both asks below min_reasonable_price
BothTooLow(d, price_a, price_b) ==
    price_a < d.min_reasonable_price /\ price_b < d.min_reasonable_price

\* strategy/mod.rs:160  both asks above max_reasonable_price
BothTooHigh(d, price_a, price_b) ==
    price_a > d.max_reasonable_price /\ price_b > d.max_reasonable_price

\* A mutant of the profit computation: the profit of leg A alone.
ExpectedProfit_LegA(price_a, total_cost) == One - price_a

\* strategy/mod.rs:196  expected_profit = dec!(1.0) - total_cost
ExpectedProfit(price_a, total_cost) == One - total_cost

\* strategy/mod.rs:142-235  check_pair after both asks were read: the five
\* filters in order and the opportunity built when all pass
check_filters(d, token_a, token_b, price_a, price_b, eth_condition_id, btc_condition_id) ==
    LET total_cost == price_a + price_b
        expected_profit == ExpectedProfit(price_a, total_cost)
    IN  IF BothTooLow(d, price_a, price_b) THEN <<>>
        ELSE IF BothTooHigh(d, price_a, price_b) THEN <<>>
        ELSE IF total_cost < d.min_total_cost THEN <<>>
        ELSE IF SumAtOrAboveMax(d, total_cost) THEN <<>>
        ELSE IF expected_profit < d.min_profit_threshold THEN <<>>
        ELSE << [eth_condition_id  |-> eth_condition_id,
                 btc_condition_id  |-> btc_condition_id,
                 eth_up_token_id   |-> token_a.token_id,
                 btc_down_token_id |-> token_b.token_id,
                 eth_up_price      |-> price_a,
                 btc_down_price    |-> price_b,
                 total_cost        |-> total_cost,
                 expected_profit   |-> expected_profit] >>

\* A mutant of the two `?`: a missing ask is read as zero (unwrap_or_default).
check_pair_MissingIsZero(d, token_a, token_b, eth_condition_id, btc_condition_id) ==
    check_filters(d, token_a, token_b,
                  IF token_a.ask = <<>> THEN 0 ELSE token_a.ask[1],
                  IF token_b.ask = <<>> THEN 0 ELSE token_b.ask[1],
                  eth_condition_id, btc_condition_id)

\* strategy/mod.rs:124-236  check_pair: Option<ArbitrageOpportunity>;
\* `token_a.ask?` and `token_b.ask?` return None when an ask is missing
check_pair(d, token_a, token_b, eth_condition_id, btc_condition_id) ==
    IF token_a.ask = <<>> THEN <<>>
    ELSE IF token_b.ask = <<>> THEN <<>>
    ELSE check_filters(d, token_a, token_b, token_a.ask[1], token_b.ask[1],
                       eth_condition_id, btc_condition_id)

\* if let (Some(eth), Some(btc)) = (a, b) { if let Some(o) = check_pair(..) { push } }
PairResult(d, s, a, b) ==
    IF a # <<>> /\ b # <<>>
    THEN check_pair(d, a[1], b[1], s.eth_market.condition_id, s.btc_market.condition_id)
    ELSE <<>>

\* A mutant of the second pairing: ETH DOWN with BTC DOWN.
SecondPair_SameDirection(d, s) ==
    PairResult(d, s, s.eth_market.down_token, s.btc_market.down_token)

\* strategy/mod.rs:81-90  PAIR 1: ETH UP + BTC DOWN
FirstPair(d, s) == PairResult(d, s, s.eth_market.up_token, s.btc_market.down_token)

\* strategy/mod.rs:95-104  PAIR 2: ETH DOWN + BTC UP
SecondPair(d, s) == PairResult(d, s, s.eth_market.down_token, s.btc_market.up_token)

\* strategy/mod.rs:70-122  detect_opportunities
detect_opportunities(d, s) == FirstPair(d, s) \o SecondPair(d, s)

InitDetector ==
    /\ detector \in Detectors
    /\ snapshot \in MarketSnapshot
    /\ opportunities = <<>>
    /\ prev_opportunities = <<>>
    /\ runs = 0

\* A mutant of the call: a detection that found something raises the
\* detector's own profit threshold (hidden mutable state).
DetectOpportunities_Stateful ==
    /\ runs < MaxRuns
    /\ prev_opportunities' = opportunities
    /\ opportunities' = detect_opportunities(detector, snapshot)
    /\ runs' = runs + 1
    /\ detector' = IF opportunities' # <<>>
                   THEN [detector EXCEPT !.min_profit_threshold = One]
                   ELSE detector
    /\ UNCHANGED <<snapshot, exeVars, otherVars>>

\* One call detector.detect_opportunities(&snapshot): &self and &snapshot are
\* shared references, the call writes neither.
DetectOpportunities ==
    /\ runs < MaxRuns
    /\ prev_opportunities' = opportunities
    /\ opportunities' = detect_opportunities(detector, snapshot)
    /\ runs' = runs + 1
    /\ UNCHANGED <<detector, snapshot, exeVars, otherVars>>

(***************************************************************************)
(* Execution Coordinator: state, inputs and sizing                         *)
(***************************************************************************)

\* trader.rs:20  MIN_ORDER_USDC = 1.0, and the literal 1.0 of mod.rs:113.
MIN_ORDER_USDC == 1 * Scale

\* clob_client.rs:20  MIN_ALLOWANCE = 1_000_000 (one USDC).
MIN_ALLOWANCE == 1 * Scale

\* clob_client.rs:166  U256::MAX, the allowance an approve transaction sets:
\* larger than every amount of the model.
U256_MAX == 2147483647

\* External changes of the wallet balance during one callback.
MaxEnvChanges == 1

\* Wallet balances (hundredths of a USDC) the chain may hold.
Balances == {0, 150, 1000, 10000, 100000}

Coordinators == {"mod", "trader"}

\* PositionSizing values (config/mod.rs:33-85 and config.json); the parameter
\* of the mode is `param`: fixed_usdc in hundredths, percentage, max_risk_percent.
Sizings ==
    {[mode |-> "Fixed", param |-> 50],  [mode |-> "Fixed", param |-> 500],
     [mode |-> "Percentage", param |-> 10], [mode |-> "Percentage", param |-> 60],
     [mode |-> "Dynamic", param |-> 1], [mode |-> "Free", param |-> 0]}

\* On-chain states of the proxy wallet.  A contract wallet is never the
\* signer's own address.
Chains ==
    {c \in [balance : Balances, allowance : {0, MIN_ALLOWANCE}, approved : BOOLEAN,
            is_contract : BOOLEAN, proxy_is_signer : BOOLEAN] :
        c.is_contract => ~c.proxy_is_signer}

\* The detector main.rs builds when no environment variable is set.
DefaultDetector ==
    [min_profit_threshold |-> 2, max_sum_threshold |-> DefaultMaxSum,
     min_reasonable_price |-> DefaultMinReasonable,
     max_reasonable_price |-> DefaultMaxReasonable,
     min_total_cost |-> DefaultMinTotal]

Quote(id, p) == <<[token_id |-> id, ask |-> <<p>>]>>

\* The snapshot whose opportunities the coordinator executes: both pairings
\* pass the filters (0.45 + 0.50 and 0.15 + 0.45).
ExecSnapshot ==
    [eth_market |-> [condition_id |-> "eth_cond", up_token |-> Quote("ETH_UP", 45),
                     down_token |-> Quote("ETH_DOWN", 15)],
     btc_market |-> [condition_id |-> "btc_cond", up_token |-> Quote("BTC_UP", 45),
                     down_token |-> Quote("BTC_DOWN", 50)]]

Min(a, b) == IF a <= b THEN a ELSE b
Max(a, b) == IF a >= b THEN a ELSE b

\* Denominator of the policy spend: the spend of mod.rs is kept as the exact
\* fraction SpendNum / SpendDen hundredths until the floor of line 218.
SpendDen == 100 * Scale

\* A mutant of the Percentage policy: the configured percentage is ignored and
\* the default of 10 is used.
SpendNum_DefaultPercentage(sz, balance, o) ==
    CASE sz.mode = "Fixed"      -> sz.param * SpendDen
      [] sz.mode = "Percentage" -> balance * 10 * Scale
      [] sz.mode = "Dynamic"    ->
            Min(balance * (Scale + o.expected_profit), balance * 25 * Scale)
      [] sz.mode = "Free"       -> balance * SpendDen

\* A mutant of the Dynamic policy: one percent of the balance, not scaled by
\* the edge.
SpendNum_NoEdge(sz, balance, o) ==
    CASE sz.mode = "Fixed"      -> sz.param * SpendDen
      [] sz.mode = "Percentage" -> balance * sz.param * Scale
      [] sz.mode = "Dynamic"    -> Min(balance * Scale, balance * 25 * Scale)
      [] sz.mode = "Free"       -> balance * SpendDen

\* mod.rs:208-216  the policy's spend, as a numerator over SpendDen.
SpendNum(sz, balance, o) ==
    CASE sz.mode = "Fixed"      -> sz.param * SpendDen
      [] sz.mode = "Percentage" -> balance * sz.param * Scale
      [] sz.mode = "Dynamic"    ->
            Min(balance * (Scale + o.expected_profit), balance * 25 * Scale)
      [] sz.mode = "Free"       -> balance * SpendDen

\* A mutant of the rounding: the unit count is rounded up.
calculate_position_size_RoundUp(sz, balance, o) ==
    (SpendNum(sz, balance, o) + SpendDen * o.total_cost - 1) \div (SpendDen * o.total_cost)

\* mod.rs:203-219  calculate_position_size: floor(spend / cost)
calculate_position_size(sz, balance, o) ==
    SpendNum(sz, balance, o) \div (SpendDen * o.total_cost)

\* trader.rs:54-79  calculate_position_size: a USDC size per leg, at least
\* MIN_ORDER_USDC (fractions of a hundredth are dropped).
tr_calculate_position_size(sz, balance, o) ==
    LET raw_size ==
          CASE sz.mode = "Fixed"      -> sz.param
            [] sz.mode = "Percentage" -> (balance * sz.param) \div 100
            [] sz.mode = "Dynamic"    ->
                  IF o.expected_profit > 0
                  THEN (balance * sz.param * Scale) \div (100 * o.expected_profit)
                  ELSE MIN_ORDER_USDC
            [] sz.mode = "Free"       -> Min(balance, 100 * Scale)
    IN  Max(raw_size, MIN_ORDER_USDC)

\* Settings of the READ_ONLY environment variable: absent, the two texts
\* str::parse::<bool> accepts, and a text it does not accept.
EnvReadOnlyValues == {"unset", "true", "false", "TRUE"}

\* str::parse::<bool>(): Ok only for the exact texts "true" and "false".
ParseBool(text) ==
    IF text = "true" THEN <<TRUE>> ELSE IF text = "false" THEN <<FALSE>> ELSE <<>>

\* Result::unwrap_or / Option::unwrap_or
UnwrapOr(opt, default) == IF opt = <<>> THEN default ELSE opt[1]

\* main.rs:83-86  READ_ONLY, "true" when unset, true when it does not parse
MainReadOnly(env) == UnwrapOr(ParseBool(IF env = "unset" THEN "true" ELSE env), TRUE)

\* clob_client.rs:59-62  READ_ONLY, "false" when unset, false when it does not parse
ClobReadOnly(env) == UnwrapOr(ParseBool(IF env = "unset" THEN "false" ELSE env), FALSE)

\* No order built or submitted yet.
SubmissionAtRest ==
    /\ clock = 0
    /\ made = <<>>
    /\ cur = <<>>
    /\ sent = <<>>
    /\ response = <<>>
    /\ ret = "none"

\* main before its loop (main.rs:137): nothing discovered, no monitor spawned.
MonitorAtRest ==
    /\ wall_period = 0
    /\ current_period = 0
    /\ main_pc = "discover"
    /\ tasks = <<>>

FeedTokens == {"ETH_UP", "BTC_DOWN"}

\* start_ws about to connect for the first time, the cache empty
\* (cache.rs:20-24): no token has an entry.
FeedAtRest ==
    /\ ws_pc = "connect"
    /\ ws_wait = 0
    /\ ws_connects = 0
    /\ ws_cache = [t \in FeedTokens |-> <<>>]

NoLegResult == [l \in {1, 2} |-> "none"]

\* The coordinator at rest, between two executions.
ExecAtRest ==
    /\ opp_index = 0
    /\ pc = "idle"
    /\ opp = <<>>
    /\ live_usdc_balance = 0
    /\ units = 0
    /\ spend = 0
    /\ required = 0
    /\ leg = 0
    /\ order = <<>>
    /\ sized = FALSE
    /\ calls = <<>>
    /\ balance_seen = <<>>
    /\ gate = "none"
    /\ attempted = {}
    /\ signed = {}
    /\ posts = <<>>
    /\ leg_result = NoLegResult
    /\ result = "none"
    /\ env_changes = 0

(***************************************************************************)
(* Execution Coordinator: the callback loop and execute_arbitrage           *)
(***************************************************************************)

cfgVars == <<coordinator, sizing, read_only, hex_token_ids>>

\* History of one execution, cleared when the next one starts.
histVars == <<sized, calls, balance_seen, gate, attempted, signed, posts, leg_result>>

TokenIds == {"ETH_UP", "ETH_DOWN", "BTC_UP", "BTC_DOWN"}

\* The state in which main.rs's callback has run the detector on a snapshot
\* and is about to walk the opportunities.  The chain state is arbitrary:
\* other actors may have moved funds or revoked approvals since start-up.
InitExec ==
    /\ detector = DefaultDetector
    /\ snapshot = ExecSnapshot
    /\ opportunities = detect_opportunities(detector, snapshot)
    /\ prev_opportunities = <<>>
    /\ runs = 1
    /\ coordinator \in Coordinators
    /\ sizing \in Sizings
    \* READ_ONLY is set to one of the two texts both parsers accept
    /\ env_READ_ONLY \in {"true", "false"}
    /\ read_only = ClobReadOnly(env_READ_ONLY)
    /\ api_read_only = MainReadOnly(env_READ_ONLY)
    /\ SubmissionAtRest
    /\ hex_token_ids \in IF coordinator = "trader"
                         THEN {{}, {"BTC_UP", "BTC_DOWN"}, TokenIds}
                         ELSE {{}}
    /\ chain \in Chains
    /\ ExecAtRest
    /\ MonitorAtRest
    /\ FeedAtRest

\* return value of execute_arbitrage
Return(r) ==
    /\ result' = r
    /\ pc' = "done"

\* main.rs:185-193  the next opportunity of the list is handed to
\* trader.execute_arbitrage.
StartExecute ==
    /\ pc = "idle"
    /\ opp_index < Len(opportunities)
    /\ opp_index' = opp_index + 1
    /\ opp' = <<opportunities[opp_index + 1]>>
    /\ pc' = "refresh"
    /\ units' = 0 /\ spend' = 0 /\ required' = 0 /\ leg' = 0 /\ order' = <<>>
    /\ sized' = FALSE /\ calls' = <<>> /\ balance_seen' = <<>>
    /\ gate' = "none" /\ attempted' = {} /\ signed' = {}
    /\ posts' = <<>> /\ leg_result' = NoLegResult /\ result' = "none"
    /\ UNCHANGED <<detVars, otherVars, cfgVars, chain, live_usdc_balance, env_changes>>

\* main.rs:193-200  execute_arbitrage returned; Ok and Err are both only logged.
FinishExecute ==
    /\ pc = "done"
    /\ pc' = "idle"
    /\ UNCHANGED <<detVars, otherVars, cfgVars, chain, opp_index, opp, live_usdc_balance, units,
                   spend, required, leg, order, histVars, result, env_changes>>

\* Another actor moves funds of the wallet while an execution is in flight.
ExternalBalanceChange ==
    /\ pc \notin {"idle", "done"}
    /\ env_changes < MaxEnvChanges
    /\ env_changes' = env_changes + 1
    /\ \E b \in Balances \ {chain.balance} : chain' = [chain EXCEPT !.balance = b]
    /\ UNCHANGED <<detVars, otherVars, cfgVars, opp_index, pc, opp, live_usdc_balance, units,
                   spend, required, leg, order, histVars, result>>

\* A mutant of the refresh: a failed balance read is ignored and the size is
\* computed from the balance of an earlier call.
Mod_RefreshBalance_Stale ==
    /\ coordinator = "mod"
    /\ pc = "refresh"
    /\ calls' = Append(calls, "balanceOf")
    /\ \E rpc_ok \in BOOLEAN :
         /\ live_usdc_balance' = IF rpc_ok THEN chain.balance ELSE live_usdc_balance
         /\ pc' = "size"
         /\ UNCHANGED result
    /\ UNCHANGED <<detVars, otherVars, cfgVars, chain, opp_index, opp, units, spend, required,
                   leg, order, sized, balance_seen, gate, attempted, signed, posts,
                   leg_result, env_changes>>

\* mod.rs:89-94,102  refresh_balance().await?  (client/mod.rs:171-196)
Mod_RefreshBalance ==
    /\ coordinator = "mod"
    /\ pc = "refresh"
    /\ calls' = Append(calls, "balanceOf")
    /\ \E rpc_ok \in BOOLEAN :
         IF rpc_ok
         THEN /\ live_usdc_balance' = chain.balance
              /\ pc' = "size"
              /\ UNCHANGED result
         ELSE /\ Return("Err")
              /\ UNCHANGED live_usdc_balance
    /\ UNCHANGED <<detVars, otherVars, cfgVars, chain, opp_index, opp, units, spend, required,
                   leg, order, sized, balance_seen, gate, attempted, signed, posts,
                   leg_result, env_changes>>

\* A mutant of the minimum check: the spend is compared with one hundredth.
BelowMinimum_OneTick(s) == s < 1

\* mod.rs:113  spend < 1.0
BelowMinimum(s) == s < MIN_ORDER_USDC

\* A mutant of the gate amount: the spend of both legs is doubled.
Mod_Size_Doubled ==
    /\ coordinator = "mod"
    /\ pc = "size"
    /\ LET u == calculate_position_size(sizing, live_usdc_balance, opp[1])
           s == u * opp[1].total_cost
       IN  /\ units' = u
           /\ sized' = TRUE
           /\ IF u <= 0
              THEN /\ Return("Ok")
                   /\ UNCHANGED <<spend, required>>
              ELSE IF BelowMinimum(s)
              THEN /\ Return("Ok")
                   /\ spend' = s
                   /\ UNCHANGED required
              ELSE /\ spend' = s
                   /\ required' = 2 * s
                   /\ pc' = "gate_balance"
                   /\ UNCHANGED result
    /\ UNCHANGED <<detVars, otherVars, cfgVars, chain, opp_index, opp, live_usdc_balance, leg,
                   order, calls, balance_seen, gate, attempted, signed, posts,
                   leg_result, env_changes>>

\* mod.rs:105-121  sizing, the two skips, and the amount handed to the gate
Mod_Size ==
    /\ coordinator = "mod"
    /\ pc = "size"
    /\ LET u == calculate_position_size(sizing, live_usdc_balance, opp[1])
           s == u * opp[1].total_cost
       IN  /\ units' = u
           /\ sized' = TRUE
           /\ IF u <= 0
              THEN /\ Return("Ok")
                   /\ UNCHANGED <<spend, required>>
              ELSE IF BelowMinimum(s)
              THEN /\ Return("Ok")
                   /\ spend' = s
                   /\ UNCHANGED required
              ELSE /\ spend' = s
                   /\ required' = s
                   /\ pc' = "gate_balance"
                   /\ UNCHANGED result
    /\ UNCHANGED <<detVars, otherVars, cfgVars, chain, opp_index, opp, live_usdc_balance, leg,
                   order, calls, balance_seen, gate, attempted, signed, posts,
                   leg_result, env_changes>>

\* trader.rs:94-142  balance fetch, sizing, the skips, and the gate amount
Tr_RefreshAndSize ==
    /\ coordinator = "trader"
    /\ pc = "refresh"
    /\ calls' = Append(calls, "balanceOf")
    /\ \E rpc_ok \in BOOLEAN :
         IF ~rpc_ok
         THEN /\ Return("Ok")
              /\ UNCHANGED <<live_usdc_balance, spend, required, sized>>
         ELSE LET balance == chain.balance
                  size == Min(tr_calculate_position_size(sizing, balance, opp[1]), balance)
              IN  /\ live_usdc_balance' = balance
                  /\ IF balance < MIN_ORDER_USDC
                     THEN /\ Return("Ok")
                          /\ UNCHANGED <<spend, required, sized>>
                     ELSE IF balance < size * 2 /\ balance < 2 * MIN_ORDER_USDC
                     THEN /\ Return("Ok")
                          /\ spend' = size
                          /\ sized' = TRUE
                          /\ UNCHANGED required
                     ELSE /\ spend' = size
                          /\ sized' = TRUE
                          /\ required' = size * 2
                          /\ pc' = "gate_balance"
                          /\ UNCHANGED result
    /\ UNCHANGED <<detVars, otherVars, cfgVars, chain, opp_index, opp, units, leg, order,
                   balance_seen, gate, attempted, signed, posts, leg_result, env_changes>>

(***************************************************************************)
(* Readiness Gate: ClobClient::ensure_trading_ready                         *)
(***************************************************************************)

\* What a gate step leaves alone.
gateFrame == <<detVars, otherVars, cfgVars, opp_index, opp, live_usdc_balance, units, spend,
               required, order, sized, attempted, signed, posts, leg_result, env_changes>>

\* A mutant of the abort: the failure is only logged and the legs are placed.
GateFail_Continue(err) ==
    /\ gate' = err
    /\ leg' = 1
    /\ pc' = "leg_sign"
    /\ UNCHANGED result

\* mod.rs:119-121 `.await?` and trader.rs:143-146 `return Err(e)`: a gate
\* error leaves execute_arbitrage at once.
GateFail(err) ==
    /\ gate' = err
    /\ Return("Err")
    /\ UNCHANGED leg

\* clob_client.rs:94  Ok(()): the coordinator goes on to the ETH leg.
GatePass ==
    /\ gate' = "passed"
    /\ leg' = 1
    /\ pc' = "leg_sign"
    /\ UNCHANGED result

\* A mutant of the first step: the wallet kind is probed before the balance.
EnsureBalance_AfterKind ==
    /\ pc = "gate_balance"
    /\ calls' = calls \o <<"getCode", "balanceOf">>
    /\ \E rpc_ok \in BOOLEAN :
         IF ~rpc_ok
         THEN /\ GateFail("RpcError")
              /\ UNCHANGED balance_seen
         ELSE /\ balance_seen' = <<chain.balance>>
              /\ IF chain.balance < required THEN GateFail("InsufficientBalance")
                 ELSE /\ pc' = "gate_kind"
                      /\ UNCHANGED <<gate, leg, result>>
    /\ UNCHANGED <<gateFrame, chain>>

\* clob_client.rs:85,106-120  ensure_balance(required_usdc).await?
EnsureBalance ==
    /\ pc = "gate_balance"
    /\ calls' = Append(calls, "balanceOf")
    /\ \E rpc_ok \in BOOLEAN :
         IF ~rpc_ok
         THEN /\ GateFail("RpcError")
              /\ UNCHANGED balance_seen
         ELSE /\ balance_seen' = <<chain.balance>>
              /\ IF chain.balance < required THEN GateFail("InsufficientBalance")
                 ELSE /\ pc' = "gate_kind"
                      /\ UNCHANGED <<gate, leg, result>>
    /\ UNCHANGED <<gateFrame, chain>>

\* clob_client.rs:87,97-104  proxy_is_contract().await?
ProxyIsContract ==
    /\ pc = "gate_kind"
    /\ calls' = Append(calls, "getCode")
    /\ \E rpc_ok \in BOOLEAN :
         IF ~rpc_ok THEN GateFail("RpcError")
         ELSE /\ pc' = IF chain.is_contract THEN "safe_allowance" ELSE "eoa_allowance"
              /\ UNCHANGED <<gate, leg, result>>
    /\ UNCHANGED <<gateFrame, chain, balance_seen>>

\* A mutant of the contract-wallet branch: a low allowance is remedied by an
\* approve transaction, as for an externally-owned wallet.
SafeAllowance_SelfApprove ==
    /\ pc = "safe_allowance"
    /\ calls' = Append(calls, "allowance")
    /\ \E rpc_ok \in BOOLEAN :
         IF ~rpc_ok THEN GateFail("RpcError")
         ELSE /\ pc' = IF chain.allowance < MIN_ALLOWANCE
                       THEN "eoa_approve_tx" ELSE "safe_approval"
              /\ UNCHANGED <<gate, leg, result>>
    /\ UNCHANGED <<gateFrame, chain, balance_seen>>

\* clob_client.rs:122-133  ensure_safe_checks: the allowance read
SafeAllowance ==
    /\ pc = "safe_allowance"
    /\ calls' = Append(calls, "allowance")
    /\ \E rpc_ok \in BOOLEAN :
         IF ~rpc_ok THEN GateFail("RpcError")
         ELSE IF chain.allowance < MIN_ALLOWANCE THEN GateFail("AllowanceMissingManual")
         ELSE /\ pc' = "safe_approval"
              /\ UNCHANGED <<gate, leg, result>>
    /\ UNCHANGED <<gateFrame, chain, balance_seen>>

\* clob_client.rs:135-148  ensure_safe_checks: the operator-approval read
SafeApproval ==
    /\ pc = "safe_approval"
    /\ calls' = Append(calls, "isApprovedForAll")
    /\ \E rpc_ok \in BOOLEAN :
         IF ~rpc_ok THEN GateFail("RpcError")
         ELSE IF ~chain.approved THEN GateFail("ApprovalMissingManual")
         ELSE GatePass
    /\ UNCHANGED <<gateFrame, chain, balance_seen>>

\* clob_client.rs:151-161  ensure_usdc_allowance: the allowance read
EoaAllowance ==
    /\ pc = "eoa_allowance"
    /\ calls' = Append(calls, "allowance")
    /\ \E rpc_ok \in BOOLEAN :
         IF ~rpc_ok THEN GateFail("RpcError")
         ELSE /\ pc' = IF chain.allowance >= MIN_ALLOWANCE
                       THEN "eoa_approval" ELSE "eoa_approve_tx"
              /\ UNCHANGED <<gate, leg, result>>
    /\ UNCHANGED <<gateFrame, chain, balance_seen>>

\* clob_client.rs:163-172  approve(exchange, U256::MAX).send().await?.await?
\* The transaction is sent by the signer's own address: it raises the
\* allowance the gate reads only when the proxy wallet is that address.
EoaApproveTx ==
    /\ pc = "eoa_approve_tx"
    /\ calls' = Append(calls, "approve")
    /\ \E tx_ok \in BOOLEAN :
         IF ~tx_ok
         THEN /\ GateFail("RpcError")
              /\ UNCHANGED chain
         ELSE /\ chain' = IF chain.proxy_is_signer
                          THEN [chain EXCEPT !.allowance = U256_MAX] ELSE chain
              /\ pc' = "eoa_approval"
              /\ UNCHANGED <<gate, leg, result>>
    /\ UNCHANGED <<gateFrame, balance_seen>>

\* clob_client.rs:175-185  ensure_erc1155_approval: the approval read
EoaApproval ==
    /\ pc = "eoa_approval"
    /\ calls' = Append(calls, "isApprovedForAll")
    /\ \E rpc_ok \in BOOLEAN :
         IF ~rpc_ok THEN GateFail("RpcError")
         ELSE IF chain.approved THEN GatePass
         ELSE /\ pc' = "eoa_set_approval_tx"
              /\ UNCHANGED <<gate, leg, result>>
    /\ UNCHANGED <<gateFrame, chain, balance_seen>>

\* clob_client.rs:187-196  set_approval_for_all(exchange, true).send().await?.await?
EoaSetApprovalTx ==
    /\ pc = "eoa_set_approval_tx"
    /\ calls' = Append(calls, "setApprovalForAll")
    /\ \E tx_ok \in BOOLEAN :
         IF ~tx_ok
         THEN /\ GateFail("RpcError")
              /\ UNCHANGED chain
         ELSE /\ chain' = IF chain.proxy_is_signer
                          THEN [chain EXCEPT !.approved = TRUE] ELSE chain
              /\ GatePass
    /\ UNCHANGED <<gateFrame, balance_seen>>

(***************************************************************************)
(* Execution Coordinator: the two legs                                      *)
(***************************************************************************)

\* What a leg step leaves alone.
legFrame == <<detVars, otherVars, cfgVars, chain, opp_index, opp, live_usdc_balance, units,
              spend, required, sized, calls, balance_seen, gate, env_changes>>

\* A mutant of the leg's token: the two legs exchanged.
LegToken_Swapped(o, l) == IF l = 1 THEN o.btc_down_token_id ELSE o.eth_up_token_id

\* mod.rs:132-147 / trader.rs:148-161  leg 1 buys the ETH-side token, leg 2 the BTC-side one
LegToken(o, l) == IF l = 1 THEN o.eth_up_token_id ELSE o.btc_down_token_id
LegPrice(o, l) == IF l = 1 THEN o.eth_up_price ELSE o.btc_down_price

\* A mutant of the amounts: the BUY and SELL assignments are exchanged.
Amounts_Swapped(side, price_u, size_u) ==
    IF side = 0
    THEN [maker_amount |-> size_u, taker_amount |-> (price_u * size_u) \div Scale]
    ELSE [maker_amount |-> (price_u * size_u) \div Scale, taker_amount |-> size_u]

\* mod.rs:163-169 / trader.rs:209-215  maker and taker amounts by side (0 BUY, 1 SELL)
Amounts(side, price_u, size_u) ==
    IF side = 0
    THEN [maker_amount |-> (price_u * size_u) \div Scale, taker_amount |-> size_u]
    ELSE [maker_amount |-> size_u, taker_amount |-> (price_u * size_u) \div Scale]

\* ClobOrder fields the model follows (salt, nonce and expiration are left out).
BuildOrder(token, side, price_u, size_u) ==
    [token_id     |-> token,
     side         |-> side,
     maker_amount |-> Amounts(side, price_u, size_u).maker_amount,
     taker_amount |-> Amounts(side, price_u, size_u).taker_amount]

\* mod.rs:159-183  the order of place_leg: size = units, token id = keccak256(string)
Mod_Order(o, l, u) ==
    BuildOrder(<<"keccak256", LegToken(o, l)>>, 0, LegPrice(o, l), u * Scale)

\* trader.rs:193-229  the order of execute_order: size = size_usdc, token id = hex bytes
Tr_Order(o, l, size) ==
    BuildOrder(<<"hex", LegToken(o, l)>>, 0, LegPrice(o, l), size)

\* The coordinator moves to the BTC leg after the ETH leg, and returns Ok after it.
NextLeg ==
    IF leg = 1
    THEN /\ leg' = 2
         /\ pc' = "leg_sign"
         /\ UNCHANGED result
    ELSE /\ Return("Ok")
         /\ UNCHANGED leg

\* A mutant of the propagation: a signing error is only logged, like a rejection.
Mod_SignFailed_Isolated ==
    /\ leg_result' = [leg_result EXCEPT ![leg] = "SigningFailure"]
    /\ NextLeg

\* mod.rs:185 with 138/147: sign_order(..).await? leaves place_leg with Err,
\* and `.await?` in execute_arbitrage returns it.
Mod_SignFailed ==
    /\ leg_result' = [leg_result EXCEPT ![leg] = "SigningFailure"]
    /\ Return("Err")
    /\ UNCHANGED leg

\* mod.rs:152-185  place_leg up to the signature
Mod_SignLeg ==
    /\ coordinator = "mod"
    /\ pc = "leg_sign"
    /\ attempted' = attempted \cup {leg}
    /\ order' = <<Mod_Order(opp[1], leg, units)>>
    /\ \E sign_ok \in BOOLEAN :
         IF sign_ok
         THEN /\ signed' = signed \cup {leg}
              /\ pc' = "leg_submit"
              /\ UNCHANGED <<leg, leg_result, result>>
         ELSE /\ Mod_SignFailed
              /\ UNCHANGED signed
    /\ UNCHANGED <<legFrame, posts>>

\* trader.rs:178-186,192-235  execute_order up to the signature; every error
\* is caught by the loop of execute_arbitrage
Tr_SignLeg ==
    /\ coordinator = "trader"
    /\ pc = "leg_sign"
    /\ attempted' = attempted \cup {leg}
    /\ IF LegToken(opp[1], leg) \notin hex_token_ids
       THEN /\ leg_result' = [leg_result EXCEPT ![leg] = "InvalidTokenId"]
            /\ NextLeg
            /\ UNCHANGED <<order, signed>>
       ELSE /\ order' = <<Tr_Order(opp[1], leg, spend)>>
            /\ \E sign_ok \in BOOLEAN :
                 IF sign_ok
                 THEN /\ signed' = signed \cup {leg}
                      /\ pc' = "leg_submit"
                      /\ UNCHANGED <<leg, leg_result, result>>
                 ELSE /\ leg_result' = [leg_result EXCEPT ![leg] = "SigningFailure"]
                      /\ NextLeg
                      /\ UNCHANGED signed
    /\ UNCHANGED <<legFrame, posts>>

\* Outcomes of the POST of clob_client.rs:352-386.
PostOutcomes == {"Accepted", "Rejected", "NetworkError"}

\* A mutant of the submission: a rejected order is POSTed a second time.
SubmitLeg_RetryRejected ==
    /\ pc = "leg_submit"
    /\ IF read_only
       THEN /\ leg_result' = [leg_result EXCEPT ![leg] = "ReadOnly"]
            /\ UNCHANGED posts
       ELSE \E out \in PostOutcomes :
              /\ leg_result' = [leg_result EXCEPT ![leg] = out]
              /\ posts' = IF out = "Rejected"
                          THEN posts \o <<order[1], order[1]>>
                          ELSE Append(posts, order[1])
    /\ NextLeg
    /\ UNCHANGED <<legFrame, order, attempted, signed>>

\* A mutant of the submission: when the BTC leg is not accepted after the ETH
\* leg was, the ETH leg is unwound by a SELL of the same token.
SubmitLeg_Unwind ==
    /\ pc = "leg_submit"
    /\ IF read_only
       THEN /\ leg_result' = [leg_result EXCEPT ![leg] = "ReadOnly"]
            /\ UNCHANGED posts
       ELSE \E out \in PostOutcomes :
              /\ leg_result' = [leg_result EXCEPT ![leg] = out]
              /\ posts' = IF leg = 2 /\ out # "Accepted" /\ leg_result[1] = "Accepted"
                          THEN posts \o <<order[1], [posts[1] EXCEPT !.side = 1]>>
                          ELSE Append(posts, order[1])
    /\ NextLeg
    /\ UNCHANGED <<legFrame, order, attempted, signed>>

\* A mutant of the read-only check: the flag is ignored and the order is POSTed.
SubmitLeg_IgnoreReadOnly ==
    /\ pc = "leg_submit"
    /\ posts' = Append(posts, order[1])
    /\ \E out \in PostOutcomes :
         leg_result' = [leg_result EXCEPT ![leg] = out]
    /\ NextLeg
    /\ UNCHANGED <<legFrame, order, attempted, signed>>

\* clob_client.rs:239-386  submit_order, and the caller's handling of its
\* result (mod.rs:187-196, trader.rs:178-185): logged, never propagated.
SubmitLeg ==
    /\ pc = "leg_submit"
    /\ IF read_only
       THEN /\ leg_result' = [leg_result EXCEPT ![leg] = "ReadOnly"]
            /\ UNCHANGED posts
       ELSE /\ posts' = Append(posts, order[1])
            /\ \E out \in PostOutcomes :
                 leg_result' = [leg_result EXCEPT ![leg] = out]
    /\ NextLeg
    /\ UNCHANGED <<legFrame, order, attempted, signed>>

(***************************************************************************)
(* Order construction and submission: place_leg / execute_order build and   *)
(* sign a ClobOrder, ClobClient::submit_order turns it into a JSON payload  *)
(* and POSTs it.                                                            *)
(***************************************************************************)

\* Orders built in one run.
MaxOrders == 2

\* Ticks the clock may reach.
MaxClock == 3

\* Clock ticks per second: trader.rs reads the clock in whole seconds,
\* make_nonce of mod.rs at full resolution.
TicksPerSec == 2

\* mod.rs:182  expiration = now_ts() + 300
MOD_EXPIRATION_SECS == 300

\* trader.rs:198  expiration = now + 3600
TR_EXPIRATION_SECS == 3600

\* trader.rs:197  nonce = now * 1000 + random % 1000
TR_NONCE_RANGE == 1000

\* Values rand::random::<u64>() returns (two of them).
Salts == {1, 2}

\* Values of rand::random::<u64>() % 1000 (two of them).
NonceRands == {0, TR_NONCE_RANGE - 1}

\* The opportunity whose legs are placed, and its size: five units in mod.rs,
\* five USDC per leg in trader.rs (Fixed 5.00 on a balance of 10.00).
OrderOpp == detect_opportunities(DefaultDetector, ExecSnapshot)[1]
OrderSizing == [mode |-> "Fixed", param |-> 5 * Scale]
OrderUnits == calculate_position_size(OrderSizing, 10 * Scale, OrderOpp)
OrderSize == Min(tr_calculate_position_size(OrderSizing, 10 * Scale, OrderOpp), 10 * Scale)

\* Seconds since the epoch: now_ts() of mod.rs:36-41, `now` of trader.rs:195.
NowSecs == clock \div TicksPerSec

\* Names of the fields of wallet/signer.rs:46-62 ClobOrder.
ClobOrderFields == {"salt", "maker", "signer", "taker", "token_id", "maker_amount",
                    "taker_amount", "side", "fee_rate_bps", "nonce", "expiration"}

\* mod.rs:171-183 / trader.rs:217-229  the ClobOrder: maker is the proxy wallet,
\* signer the address of the signing key, taker the zero address, fee rate 0.
ClobOrder(base, salt, nonce, expiration) ==
    [salt         |-> salt,
     maker        |-> "PROXY_WALLET",
     signer       |-> "EOA",
     taker        |-> "0x0",
     token_id     |-> base.token_id,
     maker_amount |-> base.maker_amount,
     taker_amount |-> base.taker_amount,
     side         |-> base.side,
     fee_rate_bps |-> 0,
     nonce        |-> nonce,
     expiration   |-> expiration]

\* wallet/signer.rs:24-26  sign_typed_data: the signature commits to every
\* field of the order it was made over.
sign_order(o) == [over |-> o]

\* clob_client.rs:287-316  the JSON payload: a salt drawn in submit_order, maker
\* from the `proxy` argument, signer from the client's own key, the literal
\* zero taker and "0" fee rate, and token id, amounts, side, nonce and
\* expiration from the order.
ClobOrderPayload(o, sig, salt) ==
    [salt           |-> salt,
     maker          |-> "PROXY_WALLET",
     signer         |-> "EOA",
     taker          |-> "0x0",
     token_id       |-> o.token_id,
     maker_amount   |-> o.maker_amount,
     taker_amount   |-> o.taker_amount,
     side           |-> o.side,
     fee_rate_bps   |-> 0,
     nonce          |-> o.nonce,
     expiration     |-> o.expiration,
     signature      |-> sig,
     signature_type |-> 0]

\* HTTP status codes of a response.
Statuses == {200, 201, 299, 300, 400, 500}

\* Bodies of a response: JSON with an order id, JSON without, not JSON.
Bodies == {"order_id", "no_order_id", "not_json"}

\* What the POST yields: None when send() or text() failed (no complete
\* response), else the status and the body.
Responses == {<<>>} \cup {<<r>> : r \in [status : Statuses, body : Bodies]}

\* A mutant of the status test: only 200 counts as success.
IsSuccess_Only200(status) == status = 200

\* reqwest StatusCode::is_success: 200..=299
IsSuccess(status) == 200 <= status /\ status <= 299

\* clob_client.rs:352-385  the value submit_order returns for a response
SubmitResult(resp) ==
    IF resp = <<>> THEN "Err"
    ELSE IF ~IsSuccess(resp[1].status) THEN "Err"
    ELSE "Ok"

subFrame == <<detVars, exeVars, env_READ_ONLY, api_read_only, monVars, feedVars>>

\* Which leg the next order is for: the ETH leg, then the BTC leg.
OrderLeg == (Len(made) % 2) + 1

\* mod.rs:159-185  place_leg builds the order (salt random, nonce make_nonce(),
\* expiration now_ts() + 300) and signs it.
Mod_BuildAndSign ==
    /\ coordinator = "mod"
    /\ cur = <<>>
    /\ Len(made) < MaxOrders
    /\ clock < MaxClock
    /\ \E salt \in Salts, sign_ok \in BOOLEAN :
         LET o == ClobOrder(Mod_Order(OrderOpp, OrderLeg, OrderUnits), salt, clock,
                            NowSecs + MOD_EXPIRATION_SECS)
         IN  /\ made' = Append(made, o)
             /\ cur' = IF sign_ok THEN <<[order |-> o, sig |-> sign_order(o)]>> ELSE <<>>
    \* the clock has moved on when the next order is built
    /\ clock' = clock + 1
    /\ UNCHANGED <<subFrame, sent, response, ret>>

\* trader.rs:193-235  execute_order builds the order (salt random, nonce
\* now * 1000 + random % 1000, expiration now + 3600) and signs it.
Tr_BuildAndSign ==
    /\ coordinator = "trader"
    /\ cur = <<>>
    /\ Len(made) < MaxOrders
    /\ clock < MaxClock
    /\ \E salt \in Salts, r \in NonceRands, sign_ok \in BOOLEAN :
         LET o == ClobOrder(Tr_Order(OrderOpp, OrderLeg, OrderSize), salt,
                            NowSecs * TR_NONCE_RANGE + r, NowSecs + TR_EXPIRATION_SECS)
         IN  /\ made' = Append(made, o)
             /\ cur' = IF sign_ok THEN <<[order |-> o, sig |-> sign_order(o)]>> ELSE <<>>
    /\ clock' = clock + 1
    /\ UNCHANGED <<subFrame, sent, response, ret>>

\* clob_client.rs:239-386  submit_order(order, sig, proxy)
SubmitOrder ==
    /\ cur # <<>>
    /\ IF read_only
       THEN /\ ret' = "Ok"
            /\ response' = <<>>
            /\ UNCHANGED sent
       ELSE \E salt \in Salts, resp \in Responses :
              /\ sent' = Append(sent, ClobOrderPayload(cur[1].order, cur[1].sig, salt))
              /\ response' = resp
              /\ ret' = SubmitResult(resp)
    /\ cur' = <<>>
    /\ UNCHANGED <<subFrame, clock, made>>

\* Time passes.
Tick ==
    /\ clock < MaxClock
    /\ clock' = clock + 1
    /\ UNCHANGED <<subFrame, made, cur, sent, response, ret>>

(***************************************************************************)
(* Main loop and Market Monitor: main.rs, monitor/mod.rs                   *)
(*                                                                         *)
(* A monitor task is polled by the runtime from one await to the next;     *)
(* each action below is one such stretch.  JoinHandle::abort takes effect  *)
(* at an await: a stretch that is running on another worker when abort    *)
(* is called is ordered before the abort.                                  *)
(***************************************************************************)

\* Period changes of the wall clock that are followed.
MaxPeriods == 1

\* Snapshot fetches of one monitor that are followed.
MaxCycles == 2

\* strategy/mod.rs:27-62  a snapshot yields no, one or two opportunities.
OppCounts == 0..2

monFrame == <<detVars, exeVars, subVars, feedVars>>

\* main.rs:168-202  the future of one callback: the opportunities still to be
\* handed to execute_arbitrage and the execution in progress.
NewCallback(n) ==
    [queue |-> n, exec |-> "none", posted |-> 0, result |-> "none", cause |-> "none"]

\* main.rs:150-206  a spawned monitor task, about to fetch its first snapshot.
\*   base        the 15-minute slot its markets were looked up from (229-252)
\*   fetched     fetch_snapshot calls so far, last_fetch the result of the last
\*   callbacks   the callback futures alive in the task
\*   cut         for an aborted task: the await of execute_arbitrage at which
\*               its future was dropped ("none": no execution was in flight),
\*               cut_posted the orders that execution had POSTed by then
NewTask(m) ==
    [base |-> m, state |-> "running", pc |-> "fetch", fetched |-> 0,
     last_fetch |-> "none", callbacks |-> <<>>, cut |-> "none", cut_posted |-> 0]

\* A mutant of the loop body: the callback is spawned, not awaited.
AfterFetch_Spawned(t, r) ==
    IF r = <<>>
    THEN [t EXCEPT !.fetched = @ + 1, !.last_fetch = "Err", !.pc = "sleep"]
    ELSE [t EXCEPT !.fetched = @ + 1, !.last_fetch = "Ok", !.pc = "sleep",
                   !.callbacks = Append(@, NewCallback(r[1]))]

\* A mutant of the loop body: a fetch error is returned with `?`.
AfterFetch_Propagate(t, r) ==
    IF r = <<>>
    THEN [t EXCEPT !.fetched = @ + 1, !.last_fetch = "Err", !.state = "stopped"]
    ELSE [t EXCEPT !.fetched = @ + 1, !.last_fetch = "Ok", !.pc = "await_callback",
                   !.callbacks = Append(@, NewCallback(r[1]))]

\* monitor/mod.rs:47-50  match self.fetch_snapshot().await: Ok awaits the
\* callback, Err is logged.  r is <<>> for Err and <<n>> for a snapshot with n
\* opportunities.
AfterFetch(t, r) ==
    IF r = <<>>
    THEN [t EXCEPT !.fetched = @ + 1, !.last_fetch = "Err", !.pc = "sleep"]
    ELSE [t EXCEPT !.fetched = @ + 1, !.last_fetch = "Ok", !.pc = "await_callback",
                   !.callbacks = Append(@, NewCallback(r[1]))]

\* monitor/mod.rs:47,56-62  fetch_snapshot: Err when build_market fails (no
\* clob_token_ids, unparsable or fewer than two ids); a failed order book
\* request leaves the prices empty (87-128) and the snapshot is Ok, with no
\* opportunity.
FetchSnapshot ==
    /\ \E i \in DOMAIN tasks :
         /\ tasks[i].state = "running"
         /\ tasks[i].pc = "fetch"
         /\ tasks[i].fetched < MaxCycles
         /\ \E r \in {<<>>} \cup {<<n>> : n \in OppCounts} :
              tasks' = [tasks EXCEPT ![i] = AfterFetch(@, r)]
    /\ UNCHANGED <<monFrame, wall_period, current_period, main_pc>>

\* main.rs:185-193  the next opportunity is handed to execute_arbitrage.
ProcessOpportunity ==
    /\ \E i \in DOMAIN tasks :
         /\ tasks[i].state = "running"
         /\ \E k \in DOMAIN tasks[i].callbacks :
              /\ tasks[i].callbacks[k].exec = "none"
              /\ tasks[i].callbacks[k].queue > 0
              /\ tasks' = [tasks EXCEPT ![i].callbacks[k] =
                             [queue |-> @.queue - 1, exec |-> "refresh", posted |-> 0,
                              result |-> "none", cause |-> "none"]]
    /\ UNCHANGED <<monFrame, wall_period, current_period, main_pc>>

Outcome(next, post, res, cause) ==
    [next |-> next, post |-> post, result |-> res, cause |-> cause]

\* clob_client.rs:239-255  a read-only submitter sends nothing.
PostCount(ro) == IF ro THEN 0 ELSE 1

\* execute_arbitrage from one await to the next, for both coordinators.
\*   refresh  mod.rs:102-115 (refresh_balance().await?, the two skips),
\*            trader.rs:94-139 (Err(e) => return Ok(()), the skips)
\*   gate     mod.rs:120-121, trader.rs:141-145
\*   leg1/2   mod.rs:130-147,171-196 (place_leg(..).await?: an address or signing
\*            error is returned, the result of the POST is only logged),
\*            trader.rs:164-188 (every error of execute_order is logged)
StepOutcomes(c, ro, stage) ==
    CASE stage = "refresh" ->
           { Outcome("gate", 0, "none", "none"),
             Outcome("none", 0, "Ok", "skipped"),
             Outcome("none", 0, IF c = "mod" THEN "Err" ELSE "Ok", "refresh_failed") }
      [] stage = "gate" ->
           { Outcome("leg1", 0, "none", "none"),
             Outcome("none", 0, "Err", "gate_failed") }
      [] stage = "leg1" ->
           IF c = "mod"
           THEN { Outcome("none", 0, "Err", "leg_failed"),
                  Outcome("leg2", PostCount(ro), "none", "none") }
           ELSE { Outcome("leg2", 0, "none", "none"),
                  Outcome("leg2", PostCount(ro), "none", "none") }
      [] stage = "leg2" ->
           IF c = "mod"
           THEN { Outcome("none", 0, "Err", "leg_failed"),
                  Outcome("none", PostCount(ro), "Ok", "completed") }
           ELSE { Outcome("none", 0, "Ok", "completed"),
                  Outcome("none", PostCount(ro), "Ok", "completed") }

\* main.rs:193-200  execute_arbitrage runs to its next await, or returns and
\* its Ok or Err is logged.
ExecuteStep ==
    /\ \E i \in DOMAIN tasks :
         /\ tasks[i].state = "running"
         /\ \E k \in DOMAIN tasks[i].callbacks :
              /\ tasks[i].callbacks[k].exec # "none"
              /\ \E o \in StepOutcomes(coordinator, read_only, tasks[i].callbacks[k].exec) :
                   tasks' = [tasks EXCEPT ![i].callbacks[k] =
                               [@ EXCEPT !.exec = o.next, !.posted = @ + o.post,
                                         !.result = o.result, !.cause = o.cause]]
    /\ UNCHANGED <<monFrame, wall_period, current_period, main_pc>>

Without(s, k) == SubSeq(s, 1, k - 1) \o SubSeq(s, k + 1, Len(s))

\* main.rs:201-202, monitor/mod.rs:48,52  the for loop is over and the
\* callback's future completes; the loop that awaited it goes on to sleep.
CallbackReturn ==
    /\ \E i \in DOMAIN tasks :
         /\ tasks[i].state = "running"
         /\ \E k \in DOMAIN tasks[i].callbacks :
              /\ tasks[i].callbacks[k].exec = "none"
              /\ tasks[i].callbacks[k].queue = 0
              /\ tasks' = [tasks EXCEPT
                             ![i].callbacks = Without(@, k),
                             ![i].pc = IF @ = "await_callback" THEN "sleep" ELSE @]
    /\ UNCHANGED <<monFrame, wall_period, current_period, main_pc>>

\* monitor/mod.rs:52-53  sleep(check_interval) is over; the loop starts again.
SleepDone ==
    /\ \E i \in DOMAIN tasks :
         /\ tasks[i].state = "running"
         /\ tasks[i].pc = "sleep"
         /\ tasks' = [tasks EXCEPT ![i].pc = "fetch"]
    /\ UNCHANGED <<monFrame, wall_period, current_period, main_pc>>

\* main.rs:22-29  the wall clock enters the next 15-minute period.
Rollover ==
    /\ wall_period < MaxPeriods
    /\ wall_period' = wall_period + 1
    /\ UNCHANGED <<monFrame, current_period, main_pc, tasks>>

\* A mutant of the rollover: the handle is dropped, which detaches the task.
abort_Detached(ts, i) == ts

\* The future of a task is dropped, and with it every future it owns.
Dropped(t) ==
    IF t.state # "running" THEN t
    ELSE [t EXCEPT !.state = "aborted", !.callbacks = <<>>,
                   !.cut = IF t.callbacks = <<>> THEN "none" ELSE t.callbacks[1].exec,
                   !.cut_posted = IF t.callbacks = <<>> \/ t.callbacks[1].exec = "none"
                                  THEN 0 ELSE t.callbacks[1].posted]

\* main.rs:218  monitor_handle.abort(): the task is never polled again.
abort(ts, i) == [ts EXCEPT ![i] = Dropped(@)]

\* main.rs:211-221  once a second main compares the period; when it changed
\* the monitor is aborted and the outer loop starts over.
Watch ==
    /\ main_pc = "watch"
    /\ wall_period # current_period
    /\ current_period' = wall_period
    /\ tasks' = abort(tasks, Len(tasks))
    /\ main_pc' = "discover"
    /\ UNCHANGED <<monFrame, wall_period>>

\* main.rs:145-206,228-265  discover_markets(&api).await?: an error ends main,
\* and with it the runtime and every task; otherwise a monitor for the
\* discovered markets is spawned.
Discover ==
    /\ main_pc = "discover"
    /\ \E r \in {<<>>, <<wall_period>>} :
         IF r = <<>>
         THEN /\ main_pc' = "exited"
              /\ tasks' = [i \in DOMAIN tasks |-> Dropped(tasks[i])]
         ELSE /\ main_pc' = "watch"
              /\ tasks' = Append(tasks, NewTask(r[1]))
    /\ UNCHANGED <<monFrame, wall_period, current_period>>

(***************************************************************************)
(* Start-up: main.rs stage 2, wallet/allowance.rs verify_allowances         *)
(***************************************************************************)

\* What the start-up leaves alone.
startFrame == <<detVars, exeVars, subVars, feedVars, wall_period, current_period, tasks>>

\* A mutant of the allowance test: a missing allowance is let through.
AllowanceSufficient_Any(allowance) == allowance >= 0

\* allowance.rs:61  !(allowance < U256::from(MIN_ALLOWANCE))
AllowanceSufficient(allowance) == allowance >= MIN_ALLOWANCE

\* allowance.rs:59-65  allowance(proxy, exchange) is read and compared; a failed
\* call and a small allowance both return Err, and main.rs:70 returns it.
PreflightAllowance ==
    /\ main_pc = "preflight"
    /\ \E r \in {<<>>, <<chain.allowance>>} :
         main_pc' = IF r = <<>> THEN "failed"
                    ELSE IF AllowanceSufficient(r[1]) THEN "preflight_ctf"
                    ELSE "failed"
    /\ UNCHANGED startFrame

\* allowance.rs:70-81  isApprovedForAll(proxy, exchange) is read; main.rs:72-137
\* then builds the clients and enters the loop.
PreflightApproval ==
    /\ main_pc = "preflight_ctf"
    /\ \E r \in {<<>>, <<chain.approved>>} :
         main_pc' = IF r = <<>> THEN "failed"
                    ELSE IF r[1] THEN "discover"
                    ELSE "failed"
    /\ UNCHANGED startFrame

\* Another actor (the owner of the wallet) revokes the allowance or the
\* operator approval, before, during or after the start-up.
ExternalRevoke ==
    /\ main_pc # "failed"
    /\ env_changes < MaxEnvChanges
    /\ env_changes' = env_changes + 1
    /\ \/ chain.allowance > 0 /\ chain' = [chain EXCEPT !.allowance = 0]
       \/ chain.approved /\ chain' = [chain EXCEPT !.approved = FALSE]
    /\ UNCHANGED <<detVars, otherVars, cfgVars, opp_index, pc, opp, live_usdc_balance, units,
                   spend, required, leg, order, histVars, result>>

(***************************************************************************)
(* Price feed: ws/mod.rs start_ws and connect_and_stream, cache.rs          *)
(***************************************************************************)

\* Connection attempts that are followed.
MaxConnects == 3

\* ws/mod.rs:23  sleep(Duration::from_secs(2))
WS_RECONNECT_SECS == 2

\* the "bid" and "ask" of a price message: absent or unparsable, or a price
FeedBids == {<<>>, <<40>>}
FeedAsks == {<<>>, <<60>>}

feedFrame == <<detVars, exeVars, subVars, monVars>>

\* A mutant of the wait: the delay doubles with every error.
ReconnectDelay_Backoff(prev) == IF prev = 0 THEN WS_RECONNECT_SECS ELSE 2 * prev

\* ws/mod.rs:21-24  the delay before the next connection attempt; prev is the
\* delay of the wait before.
ReconnectDelay(prev) == WS_RECONNECT_SECS

\* ws/mod.rs:17-24,34-56  connect_async, auth and subscribe: any `?` in them
\* returns Err to start_ws, which logs it and sleeps.
WsConnect ==
    /\ ws_pc = "connect"
    /\ ws_connects < MaxConnects
    /\ ws_connects' = ws_connects + 1
    /\ \E ok \in BOOLEAN :
         IF ok
         THEN /\ ws_pc' = "stream"
              /\ UNCHANGED ws_wait
         ELSE /\ ws_pc' = "sleep"
              /\ ws_wait' = ReconnectDelay(ws_wait)
    /\ UNCHANGED <<feedFrame, ws_cache>>

\* ws/mod.rs:67-76, cache.rs:26-41,56-70  a text message with a token_id
\* replaces the token's entry in the cache.
WsMessage ==
    /\ ws_pc = "stream"
    /\ \E t \in FeedTokens, b \in FeedBids, a \in FeedAsks :
         ws_cache' = [ws_cache EXCEPT ![t] = <<[bids |-> b, asks |-> a]>>]
    /\ UNCHANGED <<feedFrame, ws_pc, ws_wait, ws_connects>>

\* ws/mod.rs:68,21-24  the stream ended (None: "WS closed") or read.next()
\* gave an error: connect_and_stream returns Err, start_ws logs and sleeps.
\* A failed ping (62-66) is ignored.
WsStreamError ==
    /\ ws_pc = "stream"
    /\ ws_pc' = "sleep"
    /\ ws_wait' = ReconnectDelay(ws_wait)
    /\ UNCHANGED <<feedFrame, ws_connects, ws_cache>>

\* ws/mod.rs:23-25,17  the sleep is over and the loop starts again.
WsSleepDone ==
    /\ ws_pc = "sleep"
    /\ ws_pc' = "connect"
    /\ UNCHANGED <<feedFrame, ws_wait, ws_connects, ws_cache>>

(***************************************************************************)
(* Specifications                                                           *)
(***************************************************************************)

\* The detector applied to every snapshot and threshold configuration.
InitDet ==
    /\ InitDetector
    /\ coordinator = "mod"
    /\ sizing = [mode |-> "Percentage", param |-> 10]
    /\ env_READ_ONLY = "true"
    /\ read_only = ClobReadOnly(env_READ_ONLY)
    /\ api_read_only = MainReadOnly(env_READ_ONLY)
    /\ SubmissionAtRest
    /\ hex_token_ids = {}
    /\ chain = [balance |-> 0, allowance |-> 0, approved |-> FALSE,
                is_contract |-> FALSE, proxy_is_signer |-> FALSE]
    /\ ExecAtRest
    /\ MonitorAtRest
    /\ FeedAtRest

NextDet == DetectOpportunities

SpecDetector == InitDet /\ [][NextDet]_vars

\* One callback of the monitor: the opportunities of a snapshot are executed
\* one after the other.
Init == InitExec

Next ==
    \/ StartExecute
    \/ FinishExecute
    \/ ExternalBalanceChange
    \/ Mod_RefreshBalance
    \/ Mod_Size
    \/ Tr_RefreshAndSize
    \/ EnsureBalance
    \/ ProxyIsContract
    \/ SafeAllowance
    \/ SafeApproval
    \/ EoaAllowance
    \/ EoaApproveTx
    \/ EoaApproval
    \/ EoaSetApprovalTx
    \/ Mod_SignLeg
    \/ Tr_SignLeg
    \/ SubmitLeg

Spec == Init /\ [][Next]_vars

\* Orders built, signed and submitted, for every READ_ONLY setting.
InitOrders ==
    /\ detector = DefaultDetector
    /\ snapshot = ExecSnapshot
    /\ opportunities = detect_opportunities(detector, snapshot)
    /\ prev_opportunities = <<>>
    /\ runs = 1
    /\ coordinator \in Coordinators
    /\ sizing = OrderSizing
    /\ env_READ_ONLY \in EnvReadOnlyValues
    /\ read_only = ClobReadOnly(env_READ_ONLY)
    /\ api_read_only = MainReadOnly(env_READ_ONLY)
    /\ hex_token_ids = IF coordinator = "trader" THEN TokenIds ELSE {}
    /\ chain = [balance |-> 10 * Scale, allowance |-> MIN_ALLOWANCE, approved |-> TRUE,
                is_contract |-> TRUE, proxy_is_signer |-> FALSE]
    /\ ExecAtRest
    /\ SubmissionAtRest
    /\ MonitorAtRest
    /\ FeedAtRest

NextOrders ==
    \/ Mod_BuildAndSign
    \/ Tr_BuildAndSign
    \/ SubmitOrder
    \/ Tick

SpecOrders == InitOrders /\ [][NextOrders]_vars

\* main's loop and the monitors it spawns, for both coordinators, trading live.
InitMonitor ==
    /\ detector = DefaultDetector
    /\ snapshot = ExecSnapshot
    /\ opportunities = detect_opportunities(detector, snapshot)
    /\ prev_opportunities = <<>>
    /\ runs = 1
    /\ coordinator \in Coordinators
    /\ sizing = OrderSizing
    /\ env_READ_ONLY = "false"
    /\ read_only = ClobReadOnly(env_READ_ONLY)
    /\ api_read_only = MainReadOnly(env_READ_ONLY)
    /\ hex_token_ids = IF coordinator = "trader" THEN TokenIds ELSE {}
    /\ chain = [balance |-> 10 * Scale, allowance |-> MIN_ALLOWANCE, approved |-> TRUE,
                is_contract |-> TRUE, proxy_is_signer |-> FALSE]
    /\ ExecAtRest
    /\ SubmissionAtRest
    /\ MonitorAtRest
    /\ FeedAtRest

NextMonitor ==
    \/ Discover
    \/ Rollover
    \/ Watch
    \/ FetchSnapshot
    \/ ProcessOpportunity
    \/ ExecuteStep
    \/ CallbackReturn
    \/ SleepDone

SpecMonitor == InitMonitor /\ [][NextMonitor]_vars

\* The price feed task on its own.  The sleep of two seconds ends: the timer
\* fires, which is the weak fairness of WsSleepDone.
InitFeed ==
    /\ detector = DefaultDetector
    /\ snapshot = ExecSnapshot
    /\ opportunities = <<>>
    /\ prev_opportunities = <<>>
    /\ runs = 0
    /\ coordinator = "mod"
    /\ sizing = OrderSizing
    /\ env_READ_ONLY = "true"
    /\ read_only = ClobReadOnly(env_READ_ONLY)
    /\ api_read_only = MainReadOnly(env_READ_ONLY)
    /\ hex_token_ids = {}
    /\ chain = [balance |-> 10 * Scale, allowance |-> MIN_ALLOWANCE, approved |-> TRUE,
                is_contract |-> TRUE, proxy_is_signer |-> FALSE]
    /\ ExecAtRest
    /\ SubmissionAtRest
    /\ MonitorAtRest
    /\ FeedAtRest

NextFeed ==
    \/ WsConnect
    \/ WsMessage
    \/ WsStreamError
    \/ WsSleepDone

SpecFeed == InitFeed /\ [][NextFeed]_vars /\ WF_vars(WsSleepDone)

\* The whole program from its start: the preflight of main.rs:70, then the
\* callbacks of the loop handing the opportunities to a coordinator.  The
\* chain state at the start is arbitrary.
InitStartup ==
    /\ detector = DefaultDetector
    /\ snapshot = ExecSnapshot
    /\ opportunities = detect_opportunities(detector, snapshot)
    /\ prev_opportunities = <<>>
    /\ runs = 1
    /\ coordinator \in Coordinators
    /\ sizing = OrderSizing
    /\ env_READ_ONLY = "false"
    /\ read_only = ClobReadOnly(env_READ_ONLY)
    /\ api_read_only = MainReadOnly(env_READ_ONLY)
    /\ hex_token_ids = IF coordinator = "trader" THEN TokenIds ELSE {}
    /\ chain \in {c \in Chains : c.balance = 10 * Scale}
    /\ SubmissionAtRest
    /\ ExecAtRest
    /\ wall_period = 0
    /\ current_period = 0
    /\ main_pc = "preflight"
    /\ tasks = <<>>
    /\ FeedAtRest

\* main.rs:137  main has reached its loop.
InLoop == main_pc = "discover"

\* A callback of the loop runs only once main has reached the loop.
NextStartup ==
    \/ PreflightAllowance
    \/ PreflightApproval
    \/ ExternalRevoke
    \/ (InLoop /\ StartExecute)
    \/ (InLoop /\ FinishExecute)
    \/ (InLoop /\ ExternalBalanceChange)
    \/ (InLoop /\ Mod_RefreshBalance)
    \/ (InLoop /\ Mod_Size)
    \/ (InLoop /\ Tr_RefreshAndSize)
    \/ (InLoop /\ EnsureBalance)
    \/ (InLoop /\ ProxyIsContract)
    \/ (InLoop /\ SafeAllowance)
    \/ (InLoop /\ SafeApproval)
    \/ (InLoop /\ EoaAllowance)
    \/ (InLoop /\ EoaApproveTx)
    \/ (InLoop /\ EoaApproval)
    \/ (InLoop /\ EoaSetApprovalTx)
    \/ (InLoop /\ Mod_SignLeg)
    \/ (InLoop /\ Tr_SignLeg)
    \/ (InLoop /\ SubmitLeg)

SpecStartup == InitStartup /\ [][NextStartup]_vars

(***************************************************************************)
(* Properties of the Execution Coordinator and the Readiness Gate           *)
(***************************************************************************)

GateErrors == {"RpcError", "InsufficientBalance", "AllowanceMissingManual",
               "ApprovalMissingManual"}

\* Chain calls of this execution made by the gate: all but the balance read
\* of the coordinator's own refresh.
GateCalls == IF calls = <<>> THEN <<>> ELSE Tail(calls)

\* C1: whenever the Readiness Gate of an execution has failed, for whatever
\* reason, that execution has returned Err and no leg of it was attempted,
\* signed or submitted.
C1_GateFailureSubmitsNothing ==
    gate \in GateErrors =>
        /\ attempted = {}
        /\ signed = {}
        /\ posts = <<>>
        /\ leg_result = NoLegResult
        /\ result = "Err"
        /\ pc \in {"done", "idle"}

\* C1 witness: a gate that failed for a missing allowance on a contract wallet,
\* in a live (not read-only) run of the coordinator main.rs uses.
C1_Witness ==
    /\ coordinator = "mod"
    /\ ~read_only
    /\ gate = "AllowanceMissingManual"
    /\ pc = "done"
    /\ posts = <<>>

\* C2: once the gate has passed, an execution that has returned has attempted
\* leg 2, whatever happened to leg 1.
C2_Leg2AlwaysAttempted ==
    (pc = "done" /\ gate = "passed") => 2 \in attempted

\* C3: in the coordinator of mod.rs, a sized position with units <= 0 or a
\* spend below the one-USDC minimum makes execute_arbitrage return Ok with
\* the gate not invoked (no chain call but the balance refresh) and nothing
\* attempted, signed or submitted.
C3_BelowMinimumIsNoOp ==
    (coordinator = "mod" /\ sized /\ (units <= 0 \/ spend < MIN_ORDER_USDC)) =>
        /\ result = "Ok"
        /\ pc \in {"done", "idle"}
        /\ gate = "none"
        /\ calls = <<"balanceOf">>
        /\ attempted = {}
        /\ signed = {}
        /\ posts = <<>>

\* C3 witness: one unit was sized, its spend is below one USDC, and the
\* execution returned Ok.
C3_Witness ==
    /\ coordinator = "mod"
    /\ sized
    /\ units = 1
    /\ spend < MIN_ORDER_USDC
    /\ result = "Ok"
    /\ pc = "done"

\* C10: the gate reads the balance first.  A balance read below the required
\* amount ends the gate with the insufficient-balance error, and at that point
\* the gate has made no other chain call: no code probe, no allowance or
\* approval read, no approval transaction.  Conversely the gate reports
\* insufficient balance only for such a read.
C10_BalanceCheckedFirst ==
    /\ (balance_seen # <<>> /\ balance_seen[1] < required) =>
          /\ gate = "InsufficientBalance"
          /\ GateCalls = <<"balanceOf">>
          /\ result = "Err"
    /\ gate = "InsufficientBalance" =>
          /\ balance_seen # <<>>
          /\ balance_seen[1] < required
    /\ \A i \in 1..Len(GateCalls) : GateCalls[i] # "balanceOf" => i > 1

\* C10 witness: an externally-owned wallet with no allowance and no approval,
\* whose gate stopped at the balance.
C10_Witness ==
    /\ gate = "InsufficientBalance"
    /\ ~chain.is_contract
    /\ chain.allowance < MIN_ALLOWANCE
    /\ ~chain.approved
    /\ ~read_only
    /\ pc = "done"

ManualErrors == {"AllowanceMissingManual", "ApprovalMissingManual"}

ApprovalTxs == {"approve", "setApprovalForAll"}

\* The gate of this execution has sent an approval transaction.
SentApprovalTx == \E i \in 1..Len(calls) : calls[i] \in ApprovalTxs

\* The two conditions of the gate hold on chain.
AllowanceAndApprovalHold == chain.allowance >= MIN_ALLOWANCE /\ chain.approved

\* C11: for a contract-controlled proxy wallet the gate never sends an approve
\* or setApprovalForAll transaction; it passes only when the allowance and the
\* operator approval already hold, and once both reads were made with either
\* missing it has failed with a manual-remediation error.  Only contract
\* wallets get that error.
C11_ContractWalletNeverSelfApproves ==
    /\ chain.is_contract =>
          /\ ~SentApprovalTx
          /\ gate = "passed" => AllowanceAndApprovalHold
          /\ (gate \notin {"none", "RpcError", "InsufficientBalance"}
                /\ ~AllowanceAndApprovalHold) => gate \in ManualErrors
          /\ gate = "AllowanceMissingManual" => chain.allowance < MIN_ALLOWANCE
          /\ gate = "ApprovalMissingManual" => ~chain.approved
    /\ gate \in ManualErrors => chain.is_contract

\* C11 witness: a contract wallet with the allowance in place and the operator
\* approval missing; the gate made both reads and failed for manual remediation.
C11_Witness ==
    /\ chain.is_contract
    /\ chain.allowance >= MIN_ALLOWANCE
    /\ gate = "ApprovalMissingManual"
    /\ GateCalls = <<"balanceOf", "getCode", "allowance", "isApprovedForAll">>
    /\ pc = "done"

\* C12: for an externally-owned wallet the gate passes only with the allowance
\* and the operator approval in place on chain: a missing one is remedied by an
\* approval transaction and verified again before the gate passes.
C12_EoaRemediationIsReverified ==
    (gate = "passed" /\ ~chain.is_contract) => AllowanceAndApprovalHold

\* The gate of this execution was invoked.
GateInvoked == Len(calls) >= 2

\* C13 as stated: the amount handed to the Readiness Gate is twice the
\* coordinator's spend for the opportunity.
C13_GateAmountIsTwiceSpend ==
    GateInvoked => required = 2 * spend

\* C13 amended: the amount handed to the gate is the cost of both legs.  In
\* mod.rs that is spend = units * total_cost itself, total_cost being the sum
\* of the two prices; in trader.rs it is twice the per-leg size.
C13_GateAmountCoversBothLegs ==
    GateInvoked =>
        /\ coordinator = "mod" =>
              /\ required = spend
              /\ spend = units * (opp[1].eth_up_price + opp[1].btc_down_price)
        /\ coordinator = "trader" => required = 2 * spend

\* C13 witness: mod.rs sized five units of the 0.95 pair and its gate passed
\* for 4.75, the cost of both legs.
C13_Witness ==
    /\ coordinator = "mod"
    /\ gate = "passed"
    /\ units = 5
    /\ opp[1].total_cost = 95
    /\ required = 475

\* C14: an execution whose gate passed returns Ok whatever the outcome of each
\* leg, and an execution returns Err only when its gate blocked it.
C14_AttemptedUnlessGateBlocked ==
    pc = "done" =>
        /\ gate = "passed" => result = "Ok"
        /\ result = "Err" => gate \in GateErrors

\* Legs of this execution whose order reached the order endpoint.
PostedLegs == {l \in {1, 2} : leg_result[l] \in PostOutcomes}

\* C15: within one execution each leg is POSTed at most once: at most two
\* POSTs in all, for two different tokens, whatever the outcome of each.
C15_EachLegSubmittedAtMostOnce ==
    /\ Len(posts) <= 2
    /\ \A i, j \in 1..Len(posts) : i # j => posts[i].token_id # posts[j].token_id

\* C15 witness: the ETH leg was rejected, the BTC leg hit a network error, and
\* the execution ended with exactly two POSTs.
C15_Witness ==
    /\ pc = "done"
    /\ leg_result[1] = "Rejected"
    /\ leg_result[2] = "NetworkError"
    /\ Len(posts) = 2

\* C16: there is no rollback.  Every order an execution POSTs is a BUY of one
\* of the two tokens of its opportunity, and the POSTs are exactly those of
\* the legs that reached the endpoint: an accepted leg whose partner was
\* rejected or failed is followed by no compensating order.
C16_NoRollback ==
    /\ \A i \in 1..Len(posts) :
          /\ posts[i].side = 0
          /\ posts[i].token_id[2] \in {opp[1].eth_up_token_id, opp[1].btc_down_token_id}
    /\ Len(posts) = Cardinality(PostedLegs)

\* C16 witness: the ETH leg was accepted, the BTC leg rejected, and the
\* execution ended there with its two BUY orders.
C16_Witness ==
    /\ pc = "done"
    /\ leg_result[1] = "Accepted"
    /\ leg_result[2] = "Rejected"
    /\ Len(posts) = 2
    /\ posts[1].side = 0

RECURSIVE SumMakerAmounts(_)
\* Quote currency committed by a sequence of BUY orders: the sum of their
\* maker amounts.
SumMakerAmounts(orders) ==
    IF orders = <<>> THEN 0
    ELSE Head(orders).maker_amount + SumMakerAmounts(Tail(orders))

\* C17: in every execution that submitted at least one leg, the quote currency
\* committed by its legs does not exceed the balance its refresh observed,
\* whatever the sizing policy and even when the on-chain balance changed
\* between the refresh and the gate.
C17_CommittedWithinRefreshedBalance ==
    posts # <<>> => SumMakerAmounts(posts) <= live_usdc_balance

\* units = floor(num / den) for positive den, stated without division.
IsFloorOf(u, num, den) == u * den <= num /\ num < (u + 1) * den

\* C18: under the Percentage policy mod.rs sizes floor(spend / total_cost)
\* units with spend = balance * percentage / 100.
C18_PercentageSizing ==
    (coordinator = "mod" /\ sized /\ sizing.mode = "Percentage") =>
        IsFloorOf(units, live_usdc_balance * sizing.param, 100 * opp[1].total_cost)

\* C18 witness: balance 100, 10 percent, total cost 0.95: spend 10, 10 units.
C18_Witness ==
    /\ coordinator = "mod"
    /\ sized
    /\ sizing = [mode |-> "Percentage", param |-> 10]
    /\ live_usdc_balance = 100 * Scale
    /\ opp[1].total_cost = 95
    /\ units = 10

\* min(balance * 0.01 * (1 + expected_profit), balance * 0.25), times 100 * Scale.
DynamicSpendNum ==
    Min(live_usdc_balance * (Scale + opp[1].expected_profit), live_usdc_balance * 25 * Scale)

\* C19 as stated: under the Dynamic policy either coordinator spends
\* min(balance * 0.01 * (1 + expected_profit), balance * 0.25), never more
\* than a quarter of the balance.
C19_DynamicSpendFormula ==
    (sized /\ sizing.mode = "Dynamic") =>
        /\ coordinator = "mod" =>
              IsFloorOf(units, DynamicSpendNum, 100 * Scale * opp[1].total_cost)
        /\ coordinator = "trader" => spend = DynamicSpendNum \div (100 * Scale)
        /\ 4 * spend <= live_usdc_balance

\* C19 amended: the formula and the 25% ceiling are those of mod.rs.  In
\* trader.rs the Dynamic size is balance * max_risk_percent / 100 divided by
\* expected_profit, at least the one-USDC minimum and at most the balance.
C19_DynamicSpendInMod ==
    (sized /\ sizing.mode = "Dynamic") =>
        /\ coordinator = "mod" =>
              /\ IsFloorOf(units, DynamicSpendNum, 100 * Scale * opp[1].total_cost)
              /\ 4 * spend <= live_usdc_balance
        /\ coordinator = "trader" =>
              spend = Min(Max((live_usdc_balance * sizing.param * Scale)
                                 \div (100 * opp[1].expected_profit), MIN_ORDER_USDC),
                          live_usdc_balance)

\* C19 witness: balance 1000 and expected profit 0.05 in mod.rs: spend 10.5,
\* that is 11 units of the 0.95 pair.
C19_Witness ==
    /\ coordinator = "mod"
    /\ sized
    /\ sizing.mode = "Dynamic"
    /\ live_usdc_balance = 1000 * Scale
    /\ opp[1].expected_profit = 5
    /\ DynamicSpendNum = 1050 * 100 * Scale
    /\ units = 11

\* C20: for every policy the unit count of mod.rs is the whole number
\* floor(policy spend / total_cost): units * total_cost never exceeds the
\* policy spend and one more unit would.
C20_UnitsRoundedDown ==
    (coordinator = "mod" /\ sized) =>
        /\ units \in Nat
        /\ units * opp[1].total_cost * SpendDen
              <= SpendNum(sizing, live_usdc_balance, opp[1])
        /\ SpendNum(sizing, live_usdc_balance, opp[1])
              < (units + 1) * opp[1].total_cost * SpendDen

\* C20 witness: Fixed 5.00 on the 0.95 pair: 5.26 is rounded down to 5 units,
\* leaving a remainder.
C20_Witness ==
    /\ coordinator = "mod"
    /\ sized
    /\ sizing = [mode |-> "Fixed", param |-> 500]
    /\ opp[1].total_cost = 95
    /\ units = 5
    /\ units * opp[1].total_cost < sizing.param

\* C21: with the read-only flag set nothing is POSTed for any leg, and every
\* leg that was signed and handed to submit_order got Ok back without a
\* request: the coordinator went on as after an accepted order.
C21_ReadOnlySendsNothing ==
    read_only =>
        /\ posts = <<>>
        /\ \A l \in {1, 2} :
              /\ leg_result[l] \notin PostOutcomes
              /\ (l \in signed /\ (leg # l \/ pc # "leg_submit")) => leg_result[l] = "ReadOnly"
        /\ (pc = "done" /\ signed = {1, 2}) => result = "Ok"

\* C21 witness: a read-only execution signed both legs, handed both to
\* submit_order and returned Ok.
C21_Witness ==
    /\ read_only
    /\ gate = "passed"
    /\ signed = {1, 2}
    /\ leg_result[1] = "ReadOnly"
    /\ leg_result[2] = "ReadOnly"
    /\ result = "Ok"
    /\ pc = "done"

(***************************************************************************)
(* Properties of order construction and submission                          *)
(***************************************************************************)

\* C22: when READ_ONLY is unset or does not parse the bot runs read-only and
\* no order is ever POSTed.
C22_ReadOnlyByDefault ==
    env_READ_ONLY \in {"unset", "TRUE"} => sent = <<>>

\* The order fields carried by a payload.
PayloadOrder(p) == [f \in ClobOrderFields |-> p[f]]

\* C23: the order fields of every payload POSTed are exactly the fields of the
\* ClobOrder its signature was made over.
C23_PayloadIsTheSignedOrder ==
    \A i \in 1..Len(sent) : PayloadOrder(sent[i]) = sent[i].signature.over

\* C24: no two of the orders built so far share a nonce, and no two share a salt.
C24_NoncesAndSaltsUnique ==
    \A i, j \in 1..Len(made) :
        i # j => made[i].nonce # made[j].nonce /\ made[i].salt # made[j].salt

PostsOf(t) == {n \in 1..Len(posts) : posts[n].token_id[2] = t}

\* C31: every execute_arbitrage call goes balance refresh, sizing, gate, leg 1,
\* leg 2.  The size is computed from the balance read in this call; the gate
\* runs after the sizing; a leg is placed, and an order POSTed, only after the
\* gate of this call passed; leg 2 is placed only when the placement of leg 1
\* is over, and the ETH-side order is POSTed before the BTC-side one.
C31_StagesInOrder ==
    /\ [](/\ sized => (calls # <<>> /\ calls[1] = "balanceOf")
          /\ pc = "size" => calls = <<"balanceOf">>
          /\ gate # "none" => sized
          /\ Len(calls) > 1 => sized
          /\ attempted # {} => gate = "passed"
          /\ posts # <<>> => gate = "passed"
          /\ 2 \in attempted => (1 \in attempted /\ (leg = 2 \/ pc = "done"))
          /\ opp # <<>> =>
               \A m \in PostsOf(opp[1].eth_up_token_id), n \in PostsOf(opp[1].btc_down_token_id) :
                   m < n)
    /\ [][/\ (pc' = "size" /\ pc # "size")
                => (pc = "refresh" /\ live_usdc_balance' = chain.balance)
          /\ (sized' /\ ~sized)
                => IF coordinator = "mod"
                   THEN /\ pc = "size"
                        /\ live_usdc_balance' = live_usdc_balance
                        /\ units' = calculate_position_size(sizing, live_usdc_balance, opp[1])
                   ELSE /\ pc = "refresh"
                        /\ live_usdc_balance' = chain.balance
                        /\ spend' = Min(tr_calculate_position_size(sizing, chain.balance, opp[1]),
                                        chain.balance)
         ]_vars

\* The second opportunity of the snapshot went through all the stages: its own
\* balance read, its own gate pass, and both orders POSTed, ETH side first.
C31_Witness ==
    /\ opp_index = 2
    /\ pc = "done"
    /\ result = "Ok"
    /\ gate = "passed"
    /\ Len(posts) = 2
    /\ posts[1].token_id[2] = opp[1].eth_up_token_id
    /\ posts[2].token_id[2] = opp[1].btc_down_token_id

\* The size handed to the order of a leg, in hundredths of a unit.
LegSize == IF coordinator = "mod" THEN units * Scale ELSE spend

\* C32: the order built for a leg is a BUY whose taker_amount is the size and
\* whose maker_amount is price x size rounded down; a SELL of the same price
\* and size would carry the two amounts exchanged; the two orders of an
\* opportunity have the same size; and maker_amount <= taker_amount since
\* the price is at most one.
C32_OrderAmounts ==
    /\ (pc = "leg_submit" /\ order # <<>>) =>
          LET o == order[1]
              p == LegPrice(opp[1], leg)
          IN  /\ o.side = 0
              /\ o.taker_amount = LegSize
              /\ o.maker_amount * Scale <= p * LegSize
              /\ p * LegSize < (o.maker_amount + 1) * Scale
              /\ Amounts(1, p, LegSize) =
                     [maker_amount |-> o.taker_amount, taker_amount |-> o.maker_amount]
              /\ p <= One => o.maker_amount <= o.taker_amount
    /\ \A m, n \in 1..Len(posts) :
          /\ posts[m].side = 0
          /\ posts[m].taker_amount = posts[n].taker_amount

\* The order of the BTC leg is built and signed; price x size is not a whole
\* number of hundredths, so the maker amount was rounded down.
C32_Witness ==
    /\ pc = "leg_submit"
    /\ leg = 2
    /\ Len(posts) = 1
    /\ order[1].maker_amount > 0
    /\ order[1].maker_amount < order[1].taker_amount
    /\ (LegPrice(opp[1], leg) * LegSize) % Scale # 0

\* C34: whenever the gate of an execution has returned success, the proxy
\* wallet's allowance for the exchange is at least MIN_ALLOWANCE and the
\* exchange is its approved operator, for every kind of wallet and also after
\* an approval transaction of the gate.  Nothing but the gate's transactions
\* changes the two in the model.
C34_GateSuccessMeansApproved ==
    gate = "passed" => (chain.allowance >= MIN_ALLOWANCE /\ chain.approved)

\* C35: with the read-only flag set an execution makes no state-changing
\* external call: it POSTs no order and its gate sends neither an approve nor
\* a setApprovalForAll transaction.
C35_ReadOnlyChangesNothing ==
    read_only => (posts = <<>> /\ ~SentApprovalTx)

(***************************************************************************)
(* Properties of the main loop, the Market Monitor and the price feed       *)
(***************************************************************************)

\* C26: the ticks of one monitor never overlap.  A task holds at most one
\* callback future, and while it holds one the loop is awaiting it: the loop
\* is at fetch_snapshot or in its sleep only when the callback of the previous
\* snapshot has returned, that is when every opportunity of that snapshot went
\* through execute_arbitrage.  So no two executions of a monitor are in
\* progress at once.
C26_TicksNeverOverlap ==
    \A i \in DOMAIN tasks :
        /\ Len(tasks[i].callbacks) <= 1
        /\ tasks[i].callbacks # <<>> => tasks[i].pc = "await_callback"

\* The second tick of a monitor is executing the second leg of its first
\* opportunity, with another opportunity still queued.
C26_Witness ==
    \E i \in DOMAIN tasks :
        /\ tasks[i].state = "running"
        /\ tasks[i].fetched = 2
        /\ tasks[i].callbacks # <<>>
        /\ tasks[i].callbacks[1].exec = "leg2"
        /\ tasks[i].callbacks[1].queue = 1

C28_ErrorAbortsOnlyThatOpportunity ==
    \A i \in DOMAIN tasks :
        /\ tasks[i].state # "stopped"
        /\ \A k \in DOMAIN tasks[i].callbacks :
             LET cb == tasks[i].callbacks[k]
             IN  (cb.cause = "refresh_failed" \/ cb.result = "Err")
                   => /\ cb.posted = 0
                      /\ tasks[i].pc = "await_callback"

Active == {i \in DOMAIN tasks : tasks[i].state = "running"}

\* C29: at most one monitor task is running at any time; a monitor is spawned
\* only when every earlier one is aborted, and for the markets of the slot
\* looked up after the abort; and an aborted task never changes again: it
\* fetches no snapshot and submits no order.
C29_RolloverAbortsBeforeRestart ==
    /\ [](Cardinality(Active) <= 1)
    /\ [][/\ Len(tasks') > Len(tasks)
             => /\ \A i \in DOMAIN tasks : tasks[i].state = "aborted"
                /\ tasks'[Len(tasks')].base = wall_period
          /\ \A i \in DOMAIN tasks :
               tasks[i].state = "aborted" => tasks'[i] = tasks[i]
         ]_vars

\* The first monitor was aborted while the second leg of an execution was in
\* flight, and the monitor spawned after it has fetched a snapshot.
C29_Witness ==
    /\ Len(tasks) = 2
    /\ tasks[1].state = "aborted"
    /\ tasks[1].cut = "leg2"
    /\ tasks[2].state = "running"
    /\ tasks[2].base = 1
    /\ tasks[2].fetched >= 1

\* C30: the connection loop of the price feed never returns.  Every error,
\* from connecting or from an established stream, leads to a wait of
\* WS_RECONNECT_SECS seconds, the same after every error, and every wait is
\* followed by the next connection attempt.
C30_FeedReconnectsForever ==
    /\ [](ws_pc \in {"connect", "stream", "sleep"})
    /\ [](ws_pc = "sleep" => ws_wait = WS_RECONNECT_SECS)
    /\ [][ws_pc' # ws_pc
            => <<ws_pc, ws_pc'>> \in {<<"connect", "stream">>, <<"connect", "sleep">>,
                                      <<"stream", "sleep">>, <<"sleep", "connect">>}]_vars
    /\ (ws_pc = "sleep" ~> ws_pc = "connect")

\* A stream was established and delivered a price, two connection attempts
\* ended in an error, and the loop is connecting a third time.
C30_Witness ==
    /\ ws_pc = "connect"
    /\ ws_connects = 2
    /\ ws_wait = WS_RECONNECT_SECS
    /\ \E t \in FeedTokens : ws_cache[t] # <<>>

\* C33: a rollover never splits an opportunity.  No monitor task is aborted
\* at a point where the execution in flight has POSTed the order of leg 1 and
\* has not yet placed leg 2.
C33_RolloverNeverSplits ==
    \A i \in DOMAIN tasks :
        tasks[i].state = "aborted" => ~(tasks[i].cut = "leg2" /\ tasks[i].cut_posted >= 1)

(***************************************************************************)
(* Properties of the Opportunity Detector                                   *)
(***************************************************************************)

\* Option<Decimal> ask of an Option<TokenPrice>: None when the quote is absent.
AskOf(t) == IF t = <<>> THEN <<>> ELSE t[1].ask

\* The asks of the two pairings in the snapshot.
Ask1A == AskOf(snapshot.eth_market.up_token)
Ask1B == AskOf(snapshot.btc_market.down_token)
Ask2A == AskOf(snapshot.eth_market.down_token)
Ask2B == AskOf(snapshot.btc_market.up_token)

\* Both legs of a pairing carry an ask.
Priced(a, b) == a # <<>> /\ b # <<>>

\* The opportunities of the returned list that buy the given two tokens.
Emitted(eth_id, btc_id) ==
    {k \in 1..Len(opportunities) :
        /\ opportunities[k].eth_up_token_id = eth_id
        /\ opportunities[k].btc_down_token_id = btc_id}

Emitted1 == Emitted("ETH_UP", "BTC_DOWN") # {}
Emitted2 == Emitted("ETH_DOWN", "BTC_UP") # {}

\* The five conditions of the specification, on two present asks.
PassesFilters(d, a, b) ==
    /\ ~(a < d.min_reasonable_price /\ b < d.min_reasonable_price)
    /\ ~(a > d.max_reasonable_price /\ b > d.max_reasonable_price)
    /\ a + b >= d.min_total_cost
    /\ a + b < d.max_sum_threshold
    /\ One - (a + b) >= d.min_profit_threshold

\* C4: for each pairing with both asks present, an opportunity is emitted if
\* and only if the five conditions hold; 0.45 + 0.50 under the defaults with
\* min_profit 0.02 is emitted, and 0.10 + 0.10 is rejected under every
\* configuration.
C4_EmittedIffFiltersPass ==
    runs > 0 =>
        /\ Priced(Ask1A, Ask1B) =>
              /\ Emitted1 <=> PassesFilters(detector, Ask1A[1], Ask1B[1])
              /\ (detector = DefaultDetector /\ Ask1A = <<45>> /\ Ask1B = <<50>>) => Emitted1
              /\ (Ask1A = <<10>> /\ Ask1B = <<10>>) => ~Emitted1
        /\ Priced(Ask2A, Ask2B) =>
              /\ Emitted2 <=> PassesFilters(detector, Ask2A[1], Ask2B[1])
              /\ (detector = DefaultDetector /\ Ask2A = <<45>> /\ Ask2B = <<50>>) => Emitted2
              /\ (Ask2A = <<10>> /\ Ask2B = <<10>>) => ~Emitted2

\* C4 witness: under the defaults the first pairing is 0.45 + 0.50 and was
\* emitted, the second is 0.10 + 0.10 and was rejected.
C4_Witness ==
    /\ runs > 0
    /\ detector = DefaultDetector
    /\ Ask1A = <<45>> /\ Ask1B = <<50>> /\ Emitted1
    /\ Ask2A = <<10>> /\ Ask2B = <<10>> /\ ~Emitted2

\* C5: a pairing whose total cost equals max_sum_threshold is rejected.
C5_SumEqualToMaxRejected ==
    runs > 0 =>
        /\ (Priced(Ask1A, Ask1B) /\ Ask1A[1] + Ask1B[1] = detector.max_sum_threshold)
              => ~Emitted1
        /\ (Priced(Ask2A, Ask2B) /\ Ask2A[1] + Ask2B[1] = detector.max_sum_threshold)
              => ~Emitted2

\* The pairing passes every filter but the max-sum one.
OnlyMaxSumRejects(d, a, b) ==
    /\ ~(a < d.min_reasonable_price /\ b < d.min_reasonable_price)
    /\ ~(a > d.max_reasonable_price /\ b > d.max_reasonable_price)
    /\ a + b >= d.min_total_cost
    /\ a + b = d.max_sum_threshold
    /\ One - (a + b) >= d.min_profit_threshold

\* C5 witness: 0.49 + 0.50 = 0.99 = max_sum_threshold, the profit 0.01 is not
\* below min_profit_threshold, and nothing was emitted for the pairing.
C5_Witness ==
    /\ runs > 0
    /\ Ask1A = <<49>> /\ Ask1B = <<50>>
    /\ OnlyMaxSumRejects(detector, 49, 50)
    /\ ~Emitted1

\* C6: a pairing with a missing ask or an absent quote yields no opportunity,
\* and the other pairing is still evaluated on its own asks.
C6_MissingAskSkipsPairing ==
    runs > 0 =>
        /\ ~Priced(Ask1A, Ask1B) =>
              /\ ~Emitted1
              /\ Priced(Ask2A, Ask2B) =>
                    (Emitted2 <=> PassesFilters(detector, Ask2A[1], Ask2B[1]))
        /\ ~Priced(Ask2A, Ask2B) =>
              /\ ~Emitted2
              /\ Priced(Ask1A, Ask1B) =>
                    (Emitted1 <=> PassesFilters(detector, Ask1A[1], Ask1B[1]))

\* C6 witness: the ETH UP quote has no ask, its partner has one that would
\* pass with a zero, and the other pairing was emitted.
C6_Witness ==
    /\ runs > 0
    /\ snapshot.eth_market.up_token # <<>>
    /\ Ask1A = <<>>
    /\ Ask1B = <<50>>
    /\ ~Emitted1
    /\ Emitted2
    /\ Len(opportunities) = 1

\* C7: every emitted opportunity has total_cost = price_a + price_b,
\* expected_profit = 1 - total_cost, min_total_cost <= total_cost <
\* max_sum_threshold and expected_profit >= min_profit_threshold.
C7_OpportunityArithmetic ==
    \A k \in 1..Len(opportunities) :
        LET o == opportunities[k]
        IN  /\ o.total_cost = o.eth_up_price + o.btc_down_price
            /\ o.expected_profit = One - o.total_cost
            /\ o.total_cost + o.expected_profit = One
            /\ detector.min_total_cost <= o.total_cost
            /\ o.total_cost < detector.max_sum_threshold
            /\ o.expected_profit >= detector.min_profit_threshold

\* C7 witness: two opportunities were emitted with different costs.
C7_Witness ==
    /\ Len(opportunities) = 2
    /\ opportunities[1].total_cost # opportunities[2].total_cost
    /\ opportunities[1].eth_up_price # opportunities[1].btc_down_price

\* C8: the result holds at most one opportunity per pairing and nothing else:
\* each opportunity buys ETH UP with BTC DOWN or ETH DOWN with BTC UP, and its
\* presence depends on the asks of its own pairing only.
C8_ExactlyTwoPairings ==
    runs > 0 =>
        /\ Len(opportunities) <= 2
        /\ \A k \in 1..Len(opportunities) :
              <<opportunities[k].eth_up_token_id, opportunities[k].btc_down_token_id>>
                  \in {<<"ETH_UP", "BTC_DOWN">>, <<"ETH_DOWN", "BTC_UP">>}
        /\ Cardinality(Emitted("ETH_UP", "BTC_DOWN")) <= 1
        /\ Cardinality(Emitted("ETH_DOWN", "BTC_UP")) <= 1
        /\ Emitted1 <=> (Priced(Ask1A, Ask1B) /\ PassesFilters(detector, Ask1A[1], Ask1B[1]))
        /\ Emitted2 <=> (Priced(Ask2A, Ask2B) /\ PassesFilters(detector, Ask2A[1], Ask2B[1]))

\* C8 witness: ETH DOWN with BTC DOWN (same direction) and ETH UP with ETH DOWN
\* (same market) would pass the filters, the second complementary pairing
\* does not, and the result is the first pairing alone.
C8_Witness ==
    /\ runs > 0
    /\ Ask1A = <<45>> /\ Ask1B = <<50>>
    /\ Ask2A = <<45>> /\ Ask2B = <<96>>
    /\ Len(opportunities) = 1
    /\ Emitted1

OneTooLow(d, a, b) ==
    (a < d.min_reasonable_price) # (b < d.min_reasonable_price)

\* C36 as stated: no emitted opportunity has a leg whose ask price is zero or
\* below min_reasonable_price.
C36_NoLegBelowMinReasonable ==
    \A k \in 1..Len(opportunities) :
        /\ opportunities[k].eth_up_price >= detector.min_reasonable_price
        /\ opportunities[k].btc_down_price >= detector.min_reasonable_price
        /\ opportunities[k].eth_up_price > 0
        /\ opportunities[k].btc_down_price > 0

\* C36 amended: no emitted opportunity has both ask prices below
\* min_reasonable_price; a pairing with one ask below it, zero included, and a
\* normal one is emitted whenever the other conditions hold.
C36_NoPairBelowMinReasonable ==
    runs > 0 =>
        /\ \A k \in 1..Len(opportunities) :
              \/ opportunities[k].eth_up_price >= detector.min_reasonable_price
              \/ opportunities[k].btc_down_price >= detector.min_reasonable_price
        /\ (Priced(Ask1A, Ask1B) /\ OneTooLow(detector, Ask1A[1], Ask1B[1])
               /\ PassesFilters(detector, Ask1A[1], Ask1B[1])) => Emitted1
        /\ (Priced(Ask2A, Ask2B) /\ OneTooLow(detector, Ask2A[1], Ask2B[1])
               /\ PassesFilters(detector, Ask2A[1], Ask2B[1])) => Emitted2

\* A zero ask for ETH UP paired with a normal ask for BTC DOWN was emitted.
C36_Witness ==
    /\ runs > 0
    /\ Ask1A = <<0>>
    /\ Ask1B = <<50>>
    /\ \E k \in 1..Len(opportunities) :
          /\ opportunities[k].eth_up_token_id = "ETH_UP"
          /\ opportunities[k].eth_up_price = 0
          /\ opportunities[k].btc_down_price = 50
(***************************************************************************)
(* Properties that join the detector, the start-up and a coordinator       *)
(***************************************************************************)

\* The opportunity k of the list is the one built from quotes a and b.
BuiltFrom(k, a, b) ==
    /\ Priced(AskOf(a), AskOf(b))
    /\ opportunities[k].eth_up_token_id = a[1].token_id
    /\ opportunities[k].btc_down_token_id = b[1].token_id
    /\ opportunities[k].eth_up_price = a[1].ask[1]
    /\ opportunities[k].btc_down_price = b[1].ask[1]
    /\ opportunities[k].total_cost = a[1].ask[1] + b[1].ask[1]

IsPairing1(k) == BuiltFrom(k, snapshot.eth_market.up_token, snapshot.btc_market.down_token)
IsPairing2(k) == BuiltFrom(k, snapshot.eth_market.down_token, snapshot.btc_market.up_token)

\* C37: every opportunity of the list carries, in its eth_up_* and
\* btc_down_* fields, the token ids and asks of the two quotes whose sum it
\* records: ETH up with BTC down (pairing 1) or ETH down with BTC up
\* (pairing 2), the ETH market's token first; pairing 1 comes before
\* pairing 2; and the order a coordinator builds for leg 1 (leg 2) of the
\* opportunity it executes names the token derived from the eth_up_token_id
\* (btc_down_token_id) of that opportunity at its eth_up_price
\* (btc_down_price).
C37_OrdersBuyTheSummedQuotes ==
    /\ \A k \in 1..Len(opportunities) : IsPairing1(k) \/ IsPairing2(k)
    /\ \A j, k \in 1..Len(opportunities) : (IsPairing2(j) /\ IsPairing1(k)) => k < j
    /\ opp # <<>> => opp[1] = opportunities[opp_index]
    /\ (pc = "leg_submit" /\ order # <<>>) =>
          LET o == order[1]
              t == IF leg = 1 THEN opp[1].eth_up_token_id ELSE opp[1].btc_down_token_id
              p == IF leg = 1 THEN opp[1].eth_up_price ELSE opp[1].btc_down_price
          IN  /\ o.token_id[2] = t
              /\ o.side = 0
              /\ o.maker_amount = (p * o.taker_amount) \div Scale
    /\ \A n \in 1..Len(posts) :
          \E k \in 1..opp_index :
             \/ /\ posts[n].token_id[2] = opportunities[k].eth_up_token_id
                /\ posts[n].maker_amount =
                      (opportunities[k].eth_up_price * posts[n].taker_amount) \div Scale
             \/ /\ posts[n].token_id[2] = opportunities[k].btc_down_token_id
                /\ posts[n].maker_amount =
                      (opportunities[k].btc_down_price * posts[n].taker_amount) \div Scale

\* The second opportunity of the list is pairing 2 and the order of its BTC
\* leg, which buys the BTC up token at the ask 0.45, is built.
C37_Witness ==
    /\ Len(opportunities) = 2
    /\ IsPairing1(1)
    /\ IsPairing2(2)
    /\ opp_index = 2
    /\ pc = "leg_submit"
    /\ leg = 2
    /\ order # <<>>
    /\ order[1].token_id[2] = "BTC_UP"
    /\ order[1].maker_amount > 0
    /\ Len(posts) >= 1

Tr_NominalSize ==
    Min(tr_calculate_position_size(sizing, live_usdc_balance, opp[1]), live_usdc_balance)

\* trader.rs:129  adjusted_size = balance / 2.0 when the balance is below 2 x size.
Tr_AdjustedSize ==
    IF live_usdc_balance < 2 * Tr_NominalSize
    THEN live_usdc_balance \div 2
    ELSE Tr_NominalSize

\* C39: in the trader.rs coordinator, once the gate was called its amount is
\* twice the adjusted size (half the balance when the balance is below twice
\* the nominal size), it is no more than the balance read, and every order
\* built or submitted has the adjusted size.
C39_AdjustedSizeIsUsed ==
    (coordinator = "trader" /\ GateInvoked) =>
        /\ required = 2 * Tr_AdjustedSize
        /\ required <= live_usdc_balance
        /\ order # <<>> => order[1].taker_amount = Tr_AdjustedSize
        /\ \A n \in 1..Len(posts) : posts[n].taker_amount = Tr_AdjustedSize
====
